---- MODULE Spec2Model ----
(***************************************************************************)
(* Model of the observability federation proxy: the tenant watcher         *)
(* (internal/tenant), the service-proxy client (internal/proxy) and the    *)
(* Loki and Mimir routers (internal/loki, internal/mimir).                  *)
(*                                                                         *)
(* Strings are sequences of byte values, so that len(), slicing, '|'       *)
(* joining and the byte-wise order of sort.Strings are what Go computes.   *)
(***************************************************************************)
EXTENDS Integers, Sequences, FiniteSets, TLC

VARIABLES
    \* ---- tenant.Watcher ----
    includePatterns,   \* Watcher.includePatterns
    excludePatterns,   \* Watcher.excludePatterns
    tenants,           \* Watcher.tenants
    cache,             \* names held by the namespace informer's store
    queue,             \* notifications the informer has not yet delivered
    running,           \* informerFactory.Start has been called
    synced,            \* Watcher.hasSynced()
    stopCh,            \* "open" or "closed"
    pcStart,           \* position of the goroutine running Watcher.Start
    listStart,         \* namespaces listed by the refresh Start runs
    pcHandler,         \* position of the informer's handler goroutine
    listHandler,       \* namespaces listed by the refresh a handler runs
    lastRefresh,       \* outcome of the refresh that completed last
    ctx,               \* the context Start was called with: "live", "cancelled"
    \* ---- Watcher.BuildOrgIDHeader called on its own ----
    maxLength,         \* argument of the last BuildOrgIDHeader call
    header,            \* its result
    built,             \* TRUE once BuildOrgIDHeader has returned
    \* ---- one inbound request through a router and the proxy client ----
    watchers,          \* tenant.Registry.watchers: cluster -> Watcher.tenants
    maxOrgIDLength,    \* Router.maxOrgIDLength
    req,               \* the inbound *http.Request
    reqBody,           \* what is still unread of the inbound request body
    bodyClosed,        \* r.Body.Close() has been called
    pc,                \* position of the goroutine serving the request
    handler,           \* the handler the ServeMux dispatched to
    opts,              \* the options buildProxyOptions returned
    upstream,          \* the request the API server received
    result,            \* what restReq.Do(ctx) came back with
    resp,              \* the response written to the inbound client
    steps,             \* the steps taken for the request, in order
    \* ---- the URI Client.ProxyHTTP calls on the API server ----
    proxyClient,       \* the Client: namespace, service, port, pathPrefix
    uriReq,            \* r.URL.Path, r.URL.Query() and the strip prefix
    proxyReq,          \* the Request ProxyHTTP hands to ProxyRequest
    servicePath,       \* the URI ProxyRequest gives to RequestURI
    \* ---- eksTokenTransport ----
    token,             \* eksTokenTransport.token: 0 is "", n the n-th mint
    expiry,            \* eksTokenTransport.expiry, in minutes
    now,               \* time.Now(), in minutes
    mu,                \* the holder of eksTokenTransport.mu, 0 when free
    mints,             \* tokens generateToken has produced so far
    trips,             \* the RoundTrip call of each goroutine
    \* ---- cluster.Registry.HealthCheck and Server.handleReadyz ----
    registered,        \* the names in Registry.clusters
    probes,            \* the goroutine HealthCheck started for each cluster
    results,           \* the results map of HealthCheck
    hcPc,              \* position of the goroutine serving /readyz
    readyz,            \* the response written to /readyz
    \* ---- config.Config.Validate and cluster.NewRegistry ----
    cfg,               \* the configuration loaded
    validation,        \* <<"pending">>, or what Validate returned
    clusterRegistry,   \* Registry.clusters: name -> index of its descriptor
    proxyClients,      \* Server.lokiClients and Server.mimirClients
    wireReq,           \* the cluster and backend of the request being routed
    wireResp,          \* 404, or the proxy client the request went through
    \* ---- Server.Run and Server.Shutdown ----
    srvPc,             \* position of the goroutine in Run / Shutdown
    watcherStops,      \* tenant.Registry.watchers: name -> its stopCh
    httpState,         \* the http.Server: "serving", "shuttingDown", "closed"
    inflight,          \* requests the http.Server is serving
    elapsed,           \* seconds since Shutdown made its context
    shutdownErr,       \* what Shutdown returned, "pending" before
    \* ---- one request through the handler chain of the server ----
    chainLayers,       \* the handlers of the chain, outermost first
    chainReq,          \* the request: path, Authorization, what its route does
    chainStack,        \* how many handlers of the chain have been entered
    chainPhase,        \* "down", "up", "panic" or "done"
    rwStatus,          \* statusCode of the responseWriter each handler made
    clientStatus,      \* status written to the client, 0 when none yet
    logged,            \* status in the line Logging wrote, 0 when none
    recorded,          \* status Metrics counted the request under, 0 when none
    inFlightGauge,     \* metrics.HTTPRequestsInFlight
    \* ---- Watcher.Stop called by several goroutines ----
    stopChan,          \* Watcher.stopCh: "open" or "closed"
    stopPc,            \* position of each goroutine in Stop
    stopCalls,         \* Stop calls each goroutine has made
    closes,            \* close(w.stopCh) statements executed
    startCtx,          \* the context of Start: "live" or "cancelled"
    \* ---- the callers of Stop on the watcher above ----
    pcStop,            \* position of each goroutine that calls Watcher.Stop
    panicked           \* the process ended with "close of closed channel"

watcherVars == <<includePatterns, excludePatterns, tenants, cache, queue,
                 running, synced, stopCh, pcStart, listStart, pcHandler,
                 listHandler, lastRefresh, ctx>>
headerVars == <<maxLength, header, built>>
routerVars == <<watchers, maxOrgIDLength, req, reqBody, bodyClosed, pc,
                handler, opts, upstream, result, resp, steps>>
uriVars == <<proxyClient, uriReq, proxyReq, servicePath>>
tokenVars == <<token, expiry, now, mu, mints, trips>>
healthVars == <<registered, probes, results, hcPc, readyz>>
configVars == <<cfg, validation, clusterRegistry, proxyClients, wireReq, wireResp>>
shutdownVars == <<srvPc, watcherStops, httpState, inflight, elapsed,
                  shutdownErr>>
chainVars == <<chainLayers, chainReq, chainStack, chainPhase, rwStatus,
               clientStatus, logged, recorded, inFlightGauge>>
raceVars == <<stopChan, stopPc, stopCalls, closes, startCtx>>
stopVars == <<pcStop, panicked>>
moreVars == <<shutdownVars, chainVars, raceVars, stopVars>>
extVars == <<uriVars, tokenVars, healthVars, configVars, moreVars>>
notShutdownVars == <<watcherVars, headerVars, routerVars, uriVars, tokenVars,
                     healthVars, configVars, chainVars, raceVars,
    stopVars>>
notChainVars == <<watcherVars, headerVars, routerVars, uriVars, tokenVars,
                  healthVars, configVars, shutdownVars, raceVars,
    stopVars>>
notRaceVars == <<watcherVars, headerVars, routerVars, uriVars, tokenVars,
                 healthVars, configVars, shutdownVars, chainVars,
    stopVars>>
notUriVars == <<watcherVars, headerVars, routerVars, tokenVars, healthVars,
                configVars,
    moreVars>>
notTokenVars == <<watcherVars, headerVars, routerVars, uriVars, healthVars,
                  configVars,
    moreVars>>
notHealthVars == <<watcherVars, headerVars, routerVars, uriVars, tokenVars,
                   configVars,
    moreVars>>
notConfigVars == <<watcherVars, headerVars, routerVars, uriVars, tokenVars,
                   healthVars,
    moreVars>>
vars == <<watcherVars, headerVars, routerVars, extVars>>

-----------------------------------------------------------------------------
(* Bounds *)

\* largest maxLength tried with BuildOrgIDHeader (the smallest is -1)
MaxHeaderLen == 9
\* notifications the informer may hold undelivered
MaxQueue == 1
\* minutes the clock of the token transport runs
MaxTime == 15
\* tokens generateToken produces at most
MaxMints == 2
\* cluster descriptors in a configuration
MaxClusters == 2
\* requests the http.Server serves at a time
MaxInflight == 2
\* seconds the clock of Shutdown runs
MaxElapsed == 32
\* Stop calls a goroutine other than Start makes
MaxStops == 2

-----------------------------------------------------------------------------
(* Durations of the token transport, in minutes *)

\* "t.expiry = time.Now().Add(14 * time.Minute)"
TokenValidity == 14
\* "time.Now().Add(time.Minute).Before(t.expiry)"
RefreshBuffer == 1

\* "context.WithTimeout(context.Background(), 30*time.Second)", in seconds
ShutdownTimeout == 30

-----------------------------------------------------------------------------
(* Strings *)

\* "|", the separator of X-Scope-OrgID
Pipe == <<124>>

\* namespace names: "a", "ab", "kab"
Names == { <<97>>, <<97, 98>>, <<107, 97, 98>> }

\* Go's s[:n]
Take(s, n) == SubSeq(s, 1, n)

\* Go's string comparison s < t: byte-wise, a proper prefix is smaller
RECURSIVE StrLess(_, _)
StrLess(s, t) ==
    IF t = <<>> THEN FALSE
    ELSE IF s = <<>> THEN TRUE
    ELSE IF Head(s) # Head(t) THEN Head(s) < Head(t)
    ELSE StrLess(Tail(s), Tail(t))

HasPrefix(s, p) == Len(p) <= Len(s) /\ Take(s, Len(p)) = p

Contains(s, p) ==
    \E i \in 0..(Len(s) - Len(p)) : SubSeq(s, i + 1, i + Len(p)) = p

\* strings.Join(elems, "|")
RECURSIVE Join(_)
Join(elems) ==
    IF elems = <<>> THEN <<>>
    ELSE IF Len(elems) = 1 THEN elems[1]
    ELSE elems[1] \o Pipe \o Join(Tail(elems))

\* strings.Split(s, "|"): the '|'-separated elements of s
RECURSIVE SplitFrom(_, _)
SplitFrom(s, cur) ==
    IF s = <<>> THEN <<cur>>
    ELSE IF <<Head(s)>> = Pipe THEN <<cur>> \o SplitFrom(Tail(s), <<>>)
    ELSE SplitFrom(Tail(s), Append(cur, Head(s)))

Split(s) == SplitFrom(s, <<>>)

Range(f) == { f[i] : i \in DOMAIN f }

\* sort.Strings mutated: leaves the slice in the order it was collected,
\* here largest name first
RECURSIVE SortStrings_Unsorted(_)
SortStrings_Unsorted(S) ==
    IF S = {} THEN <<>>
    ELSE LET m == CHOOSE x \in S : \A y \in S \ {x} : StrLess(y, x)
         IN  <<m>> \o SortStrings_Unsorted(S \ {m})

\* sort.Strings applied to a slice holding the names of S once each
RECURSIVE SortStrings(_)
SortStrings(S) ==
    IF S = {} THEN <<>>
    ELSE LET m == CHOOSE x \in S : \A y \in S \ {x} : StrLess(x, y)
         IN  <<m>> \o SortStrings(S \ {m})

-----------------------------------------------------------------------------
(* Watcher.BuildOrgIDHeader and Watcher.truncateOrgIDHeader *)

\* the loop of truncateOrgIDHeader not counting the separator it is about
\* to write
RECURSIVE truncateLoop_NoSeparator(_, _, _, _)
truncateLoop_NoSeparator(ts, i, acc, maxLen) ==
    IF i > Len(ts) THEN acc
    ELSE IF i > 1
         THEN IF Len(acc) + Len(ts[i]) > maxLen
              THEN acc
              ELSE truncateLoop_NoSeparator(ts, i + 1,
                                            acc \o Pipe \o ts[i], maxLen)
         ELSE IF Len(ts[i]) > maxLen
              THEN Take(ts[i], maxLen)
              ELSE truncateLoop_NoSeparator(ts, i + 1, acc \o ts[i], maxLen)

\* the loop of truncateOrgIDHeader from index i on, acc being the
\* content of the strings.Builder "result" so far
RECURSIVE truncateLoop(_, _, _, _)
truncateLoop(ts, i, acc, maxLen) ==
    IF i > Len(ts) THEN acc
    ELSE IF i > 1
         THEN IF Len(acc) + 1 + Len(ts[i]) > maxLen
              THEN acc
              ELSE truncateLoop(ts, i + 1, acc \o Pipe \o ts[i], maxLen)
         ELSE IF Len(ts[i]) > maxLen
              THEN Take(ts[i], maxLen)
              ELSE truncateLoop(ts, i + 1, acc \o ts[i], maxLen)

\* truncateOrgIDHeader without the check of the first tenant's length
RECURSIVE truncateLoop_NoFirstCheck(_, _, _, _)
truncateLoop_NoFirstCheck(ts, i, acc, maxLen) ==
    IF i > Len(ts) THEN acc
    ELSE IF i > 1
         THEN IF Len(acc) + 1 + Len(ts[i]) > maxLen
              THEN acc
              ELSE truncateLoop_NoFirstCheck(ts, i + 1,
                                             acc \o Pipe \o ts[i], maxLen)
         ELSE truncateLoop_NoFirstCheck(ts, i + 1, acc \o ts[i], maxLen)

truncateOrgIDHeader_NoFirstCheck(ts, maxLen) ==
    IF Len(ts) = 0 THEN <<>> ELSE truncateLoop_NoFirstCheck(ts, 1, <<>>, maxLen)

truncateOrgIDHeader(ts, maxLen) ==
    IF Len(ts) = 0 THEN <<>> ELSE truncateLoop(ts, 1, <<>>, maxLen)

\* BuildOrgIDHeader cutting the joined header at maxLength bytes
BuildOrgIDHeader_CutBytes(ts, maxLen) ==
    IF Len(ts) = 0 THEN <<>>
    ELSE IF maxLen > 0 /\ Len(Join(ts)) > maxLen
         THEN Take(Join(ts), maxLen)
         ELSE Join(ts)

\* BuildOrgIDHeader on a watcher whose Tenants() returns ts
BuildOrgIDHeader(ts, maxLen) ==
    IF Len(ts) = 0 THEN <<>>
    ELSE LET hdr == Join(ts)
         IN  IF maxLen > 0 /\ Len(hdr) > maxLen
             THEN truncateOrgIDHeader(ts, maxLen)
             ELSE hdr

-----------------------------------------------------------------------------
(* Regular expressions: the anchored-prefix and the substring patterns.     *)
(* A pattern is [anchored, lit]: "^lit" when anchored, "lit" otherwise.     *)

\* "^a", "b", "^k"
ReA == [anchored |-> TRUE, lit |-> <<97>>]
ReB == [anchored |-> FALSE, lit |-> <<98>>]
ReK == [anchored |-> TRUE, lit |-> <<107>>]

\* the include/exclude pattern lists a watcher is configured with
FilterConfigs ==
    { [inc |-> <<>>,         exc |-> <<>>],
      [inc |-> <<ReA>>,      exc |-> <<ReB>>],
      [inc |-> <<>>,         exc |-> <<ReK>>],
      [inc |-> <<ReK, ReB>>, exc |-> <<ReA>>],
      [inc |-> <<ReA>>,      exc |-> <<>>] }

\* regexp.Regexp.MatchString
MatchString(re, name) ==
    IF re.anchored THEN HasPrefix(name, re.lit) ELSE Contains(name, re.lit)

\* the "for _, re := range patterns { if re.MatchString(name) ..." loops
RECURSIVE anyMatch(_, _, _)
anyMatch(patterns, i, name) ==
    IF i > Len(patterns) THEN FALSE
    ELSE IF MatchString(patterns[i], name) THEN TRUE
    ELSE anyMatch(patterns, i + 1, name)

\* shouldInclude that takes an include match as final and skips the excludes
shouldInclude_IncludeWins(inc, exc, name) ==
    IF Len(inc) > 0
    THEN anyMatch(inc, 1, name)
    ELSE ~anyMatch(exc, 1, name)

\* Watcher.shouldInclude
shouldInclude(inc, exc, name) ==
    IF Len(inc) > 0 /\ ~anyMatch(inc, 1, name)
    THEN FALSE
    ELSE IF anyMatch(exc, 1, name) THEN FALSE
    ELSE TRUE

\* refreshTenants without the sort.Strings call
computeTenants_NoSort(inc, exc, namespaces) ==
    SortStrings_Unsorted({ n \in namespaces : shouldInclude(inc, exc, n) })

\* the slice refreshTenants stores, from the namespaces it listed
computeTenants(inc, exc, namespaces) ==
    SortStrings({ n \in namespaces : shouldInclude(inc, exc, n) })

-----------------------------------------------------------------------------
(* tenant.Watcher: the informer, the goroutine running Start and the        *)
(* goroutine delivering the informer's notifications to the handlers        *)

NoRefresh == [by |-> "none", listed |-> {}, alone |-> TRUE]

\* a watcher as NewWatcher returns it, its patterns apart
WatcherNew ==
    /\ tenants = <<>>
    /\ cache = {}
    /\ queue = <<>>
    /\ running = FALSE
    /\ synced = FALSE
    /\ stopCh = "open"
    /\ pcStart = "new"
    /\ listStart = {}
    /\ pcHandler = "idle"
    /\ listHandler = {}
    /\ lastRefresh = NoRefresh
    /\ ctx = "live"

WatcherInit ==
    /\ \E f \in FilterConfigs :
          /\ includePatterns = f.inc
          /\ excludePatterns = f.exc
    /\ WatcherNew

\* the watcher of a specification that does not run it
WatcherIdle ==
    /\ includePatterns = <<>>
    /\ excludePatterns = <<>>
    /\ WatcherNew

HeaderIdle ==
    /\ maxLength = 0
    /\ header = <<>>
    /\ built = FALSE

NoValue == [none |-> TRUE]

\* a URL query or a body without pairs
NoPairs == <<>>

\* no request has arrived
RouterIdle ==
    /\ watchers = [c \in {"c1", "c2"} |-> <<>>]
    /\ maxOrgIDLength = 0
    /\ req = NoValue
    /\ reqBody = NoPairs
    /\ bodyClosed = FALSE
    /\ pc = "idle"
    /\ handler = ""
    /\ opts = NoValue
    /\ upstream = NoValue
    /\ result = NoValue
    /\ resp = NoValue
    /\ steps = <<>>

\* no URI has been asked for
UriIdle ==
    /\ proxyClient = NoValue
    /\ uriReq = NoValue
    /\ proxyReq = NoValue
    /\ servicePath = NoValue

\* the goroutines that call RoundTrip
Procs == {1, 2, 3}

\* a goroutine that is not in RoundTrip and has not been
NoTrip ==
    [pc |-> "idle", stale |-> FALSE, m0 |-> 0, m1 |-> 0, tok |-> 0,
     minted |-> FALSE, err |-> FALSE, sent |-> FALSE, peers |-> {}]

\* a new eksTokenTransport: no token, the zero expiry, the mutex free
TokenIdle ==
    /\ token = 0
    /\ expiry = 0
    /\ now = 0
    /\ mu = 0
    /\ mints = 0
    /\ trips = [p \in Procs |-> NoTrip]

\* no registry to check
HealthIdle ==
    /\ registered = {}
    /\ probes = <<>>
    /\ results = <<>>
    /\ hcPc = "idle"
    /\ readyz = NoValue

\* no configuration loaded
ConfigIdle ==
    /\ cfg = NoValue
    /\ validation = <<"pending">>
    /\ clusterRegistry = NoValue
    /\ proxyClients = NoValue
    /\ wireReq = NoValue
    /\ wireResp = NoValue

\* no server
ShutdownIdle ==
    /\ srvPc = "none"
    /\ watcherStops = <<>>
    /\ httpState = "none"
    /\ inflight = 0
    /\ elapsed = 0
    /\ shutdownErr = "pending"

\* no request in the handler chain
ChainIdle ==
    /\ chainLayers = <<>>
    /\ chainReq = NoValue
    /\ chainStack = 0
    /\ chainPhase = "none"
    /\ rwStatus = <<>>
    /\ clientStatus = 0
    /\ logged = 0
    /\ recorded = 0
    /\ inFlightGauge = 0

\* no goroutine near Stop
RaceIdle ==
    /\ stopChan = "open"
    /\ stopPc = <<>>
    /\ stopCalls = <<>>
    /\ closes = 0
    /\ startCtx = "live"

\* the goroutines that call Stop from outside Start: the one that runs
\* tenant.Registry.Stop, the only other caller in the program
StopCallers == {"registry"}

\* nobody inside Stop, the process alive
StopIdle ==
    /\ pcStop = [p \in StopCallers |-> "idle"]
    /\ panicked = FALSE

MoreIdle == ShutdownIdle /\ ChainIdle /\ RaceIdle /\ StopIdle

ExtIdle == UriIdle /\ TokenIdle /\ HealthIdle /\ ConfigIdle /\ MoreIdle

\* the process runs: no goroutine has panicked
Alive == ~panicked

\* an informer that runs on when its stop channel is closed
Informing_IgnoresStop == running

\* the informer is delivering: started and its stop channel still open
Informing == running /\ stopCh = "open"

\* StartAsync / Start up to WaitForCacheSync, with a context of its own;
\* informerFactory.Start starts the informer unless it has been started
StartAsync ==
    /\ Alive
    /\ pcStart \in {"new", "done", "failed"}
    /\ running' = TRUE
    /\ pcStart' = "syncing"
    /\ ctx' = "live"
    /\ UNCHANGED <<includePatterns, excludePatterns, tenants, cache, queue,
                   synced, stopCh, listStart, pcHandler, listHandler,
                   lastRefresh>>
    /\ UNCHANGED <<headerVars, routerVars, extVars>>

\* the informer stores a namespace it has seen appear and notifies AddFunc
\* (AddFunc and DeleteFunc ignore the object they are handed)
InformerAdd(n) ==
    /\ Alive
    /\ Informing
    /\ n \notin cache
    /\ Len(queue) < MaxQueue
    /\ cache' = cache \cup {n}
    /\ queue' = Append(queue, [type |-> "add", oldName |-> <<>>, newName |-> <<>>])
    /\ UNCHANGED <<ctx, includePatterns, excludePatterns, tenants, running, synced,
                   stopCh, pcStart, listStart, pcHandler, listHandler,
                   lastRefresh>>
    /\ UNCHANGED <<headerVars, routerVars, extVars>>

\* the informer drops a namespace and notifies DeleteFunc
InformerDelete(n) ==
    /\ Alive
    /\ Informing
    /\ n \in cache
    /\ Len(queue) < MaxQueue
    /\ cache' = cache \ {n}
    /\ queue' = Append(queue, [type |-> "delete", oldName |-> <<>>, newName |-> <<>>])
    /\ UNCHANGED <<ctx, includePatterns, excludePatterns, tenants, running, synced,
                   stopCh, pcStart, listStart, pcHandler, listHandler,
                   lastRefresh>>
    /\ UNCHANGED <<headerVars, routerVars, extVars>>

\* the informer notifies UpdateFunc: a changed object or a resync tick,
\* which redelivers a stored namespace as an update of itself
InformerUpdate(n) ==
    /\ Alive
    /\ Informing
    /\ n \in cache
    /\ Len(queue) < MaxQueue
    /\ queue' = Append(queue, [type |-> "update", oldName |-> n, newName |-> n])
    /\ UNCHANGED <<ctx, includePatterns, excludePatterns, tenants, cache, running,
                   synced, stopCh, pcStart, listStart, pcHandler, listHandler,
                   lastRefresh>>
    /\ UNCHANGED <<headerVars, routerVars, extVars>>

\* a resync tick of the informer factory (every refreshInterval): the
\* informer hands a stored namespace to UpdateFunc as old and as new
\* object; "resync" marks the notification for the properties only
InformerResync(n) ==
    /\ Alive
    /\ Informing
    /\ n \in cache
    /\ Len(queue) < MaxQueue
    /\ queue' = Append(queue, [type |-> "update", oldName |-> n, newName |-> n,
                               resync |-> TRUE])
    /\ UNCHANGED <<ctx, includePatterns, excludePatterns, tenants, cache, running,
                   synced, stopCh, pcStart, listStart, pcHandler, listHandler,
                   lastRefresh>>
    /\ UNCHANGED <<headerVars, routerVars, extVars>>

\* a replace that hands UpdateFunc objects of different names
InformerReplace(o, n) ==
    /\ Alive
    /\ Informing
    /\ o \in cache
    /\ n \notin cache
    /\ Len(queue) < MaxQueue
    /\ cache' = (cache \ {o}) \cup {n}
    /\ queue' = Append(queue, [type |-> "update", oldName |-> o, newName |-> n])
    /\ UNCHANGED <<ctx, includePatterns, excludePatterns, tenants, running, synced,
                   stopCh, pcStart, listStart, pcHandler, listHandler,
                   lastRefresh>>
    /\ UNCHANGED <<headerVars, routerVars, extVars>>

\* the informer has delivered its initial list: hasSynced turns true
InformerSynced ==
    /\ Alive
    /\ Informing
    /\ ~synced
    /\ synced' = TRUE
    /\ UNCHANGED <<ctx, includePatterns, excludePatterns, tenants, cache, queue,
                   running, stopCh, pcStart, listStart, pcHandler, listHandler,
                   lastRefresh>>
    /\ UNCHANGED <<headerVars, routerVars, extVars>>

\* whether the handler registered for a notification calls onNamespaceChange
triggersRefresh(ev) ==
    IF ev.type = "update" THEN ev.oldName # ev.newName ELSE TRUE

\* Start: WaitForCacheSync returned true; refreshTenants lists the cache
StartList(ok) ==
    /\ Alive
    /\ pcStart = "syncing"
    /\ synced
    /\ IF ok
       THEN /\ listStart' = cache
            /\ pcStart' = "listed"
       ELSE /\ listStart' = {}
            /\ pcStart' = "listFailed"
    /\ UNCHANGED <<ctx, includePatterns, excludePatterns, tenants, cache, queue,
                   running, synced, stopCh, pcHandler, listHandler,
                   lastRefresh>>
    /\ UNCHANGED <<headerVars, routerVars, extVars>>

\* refreshTenants whose List call failed clearing the tenants
tenantsAfterListError_Cleared == <<>>

\* refreshTenants whose List call failed: it logs the error and returns
tenantsAfterListError == tenants

\* Start: refreshTenants returns after a failed List
StartListFailed ==
    /\ Alive
    /\ pcStart = "listFailed"
    /\ tenants' = tenantsAfterListError
    /\ pcStart' = "waiting"
    /\ UNCHANGED <<ctx, includePatterns, excludePatterns, cache, queue,
                   running, synced, stopCh, listStart, pcHandler, listHandler,
                   lastRefresh>>
    /\ UNCHANGED <<headerVars, routerVars, extVars>>

\* Start: refreshTenants filters, sorts and stores under the lock
StartStore ==
    /\ Alive
    /\ pcStart = "listed"
    /\ tenants' = computeTenants(includePatterns, excludePatterns, listStart)
    /\ lastRefresh' = [by |-> "start", listed |-> listStart,
                       alone |-> pcHandler # "listed"]
    /\ pcStart' = "waiting"
    /\ listStart' = {}
    /\ UNCHANGED <<ctx, includePatterns, excludePatterns, cache, queue, running,
                   synced, stopCh, pcHandler, listHandler>>
    /\ UNCHANGED <<headerVars, routerVars, extVars>>

\* the handler goroutine takes the next notification; when its handler
\* calls onNamespaceChange, refreshTenants lists the cache
HandlerTake(ok) ==
    /\ Alive
    /\ pcHandler = "idle"
    /\ queue # <<>>
    /\ queue' = Tail(queue)
    /\ IF triggersRefresh(Head(queue))
       THEN IF ok
            THEN /\ listHandler' = cache
                 /\ pcHandler' = "listed"
            ELSE /\ listHandler' = {}
                 /\ pcHandler' = "listFailed"
       ELSE UNCHANGED <<listHandler, pcHandler>>
    /\ UNCHANGED <<ctx, includePatterns, excludePatterns, tenants, cache, running,
                   synced, stopCh, pcStart, listStart, lastRefresh>>
    /\ UNCHANGED <<headerVars, routerVars, extVars>>

\* the handler goroutine: refreshTenants returns after a failed List
HandlerListFailed ==
    /\ Alive
    /\ pcHandler = "listFailed"
    /\ tenants' = tenantsAfterListError
    /\ pcHandler' = "idle"
    /\ UNCHANGED <<ctx, includePatterns, excludePatterns, cache, queue,
                   running, synced, stopCh, pcStart, listStart, listHandler,
                   lastRefresh>>
    /\ UNCHANGED <<headerVars, routerVars, extVars>>

\* the handler goroutine: refreshTenants filters, sorts and stores
HandlerStore ==
    /\ Alive
    /\ pcHandler = "listed"
    /\ tenants' = computeTenants(includePatterns, excludePatterns, listHandler)
    /\ lastRefresh' = [by |-> "handler", listed |-> listHandler,
                       alone |-> pcStart # "listed"]
    /\ pcHandler' = "idle"
    /\ listHandler' = {}
    /\ UNCHANGED <<ctx, includePatterns, excludePatterns, cache, queue, running,
                   synced, stopCh, pcStart, listStart>>
    /\ UNCHANGED <<headerVars, routerVars, extVars>>

\* the variables of the watcher that Stop leaves alone
notStopCh == <<ctx, includePatterns, excludePatterns, tenants, cache, queue,
               running, synced, listStart, pcHandler, listHandler,
               lastRefresh>>
notStopVars == <<headerVars, routerVars, uriVars, tokenVars, healthVars,
                 configVars, shutdownVars, chainVars, raceVars>>

\* Watcher.Stop called by goroutine p, the select: "case <-w.stopCh" when
\* the channel is closed, and Stop returns; else the default branch is
\* chosen, which holds no lock
Stop(p) ==
    /\ Alive
    /\ pcStop[p] = "idle"
    /\ pcStop' = [pcStop EXCEPT
                    ![p] = IF stopCh = "closed" THEN "idle" ELSE "default"]
    /\ UNCHANGED <<stopCh, pcStart, panicked>>
    /\ UNCHANGED notStopCh
    /\ UNCHANGED notStopVars

\* close(w.stopCh): closes the channel, or panics when another goroutine
\* closed it since the select, which ends the process
closeStopCh ==
    IF stopCh = "closed"
    THEN /\ panicked' = TRUE
         /\ UNCHANGED stopCh
    ELSE /\ stopCh' = "closed"
         /\ UNCHANGED panicked

\* Watcher.Stop called by goroutine p, the default branch
StopDefault(p) ==
    /\ Alive
    /\ pcStop[p] = "default"
    /\ closeStopCh
    /\ pcStop' = [pcStop EXCEPT ![p] = "idle"]
    /\ UNCHANGED pcStart
    /\ UNCHANGED notStopCh
    /\ UNCHANGED notStopVars

\* the context given to Start is cancelled
CtxCancel ==
    /\ Alive
    /\ pcStart # "new"
    /\ ctx = "live"
    /\ ctx' = "cancelled"
    /\ UNCHANGED <<includePatterns, excludePatterns, tenants, cache, queue,
                   running, synced, stopCh, pcStart, listStart, pcHandler,
                   listHandler, lastRefresh>>
    /\ UNCHANGED <<headerVars, routerVars, extVars>>

\* Start: WaitForCacheSync(ctx.Done(), ...) returns false and Start returns
\* the error "failed to sync namespace cache"
StartSyncFailed ==
    /\ Alive
    /\ pcStart = "syncing"
    /\ ctx = "cancelled"
    /\ pcStart' = "failed"
    /\ UNCHANGED <<ctx, includePatterns, excludePatterns, tenants, cache,
                   queue, running, synced, stopCh, listStart, pcHandler,
                   listHandler, lastRefresh>>
    /\ UNCHANGED <<headerVars, routerVars, extVars>>

\* Start: the select takes "case <-ctx.Done()" and calls w.Stop()
StartCtxDone ==
    /\ Alive
    /\ pcStart = "waiting"
    /\ ctx = "cancelled"
    /\ pcStart' = "stopping"
    /\ UNCHANGED <<stopCh, pcStop, panicked>>
    /\ UNCHANGED notStopCh
    /\ UNCHANGED notStopVars

\* Start inside w.Stop(), the select: with the channel closed Stop returns
\* and Start returns ctx.Err()
StartStop ==
    /\ Alive
    /\ pcStart = "stopping"
    /\ pcStart' = IF stopCh = "closed" THEN "done" ELSE "default"
    /\ UNCHANGED <<stopCh, pcStop, panicked>>
    /\ UNCHANGED notStopCh
    /\ UNCHANGED notStopVars

\* Start inside w.Stop(), the default branch, then "return ctx.Err()"
StartStopDefault ==
    /\ Alive
    /\ pcStart = "default"
    /\ closeStopCh
    /\ pcStart' = IF stopCh = "closed" THEN "default" ELSE "done"
    /\ UNCHANGED pcStop
    /\ UNCHANGED notStopCh
    /\ UNCHANGED notStopVars

\* Start: the select on stopCh returns
StartReturn ==
    /\ Alive
    /\ pcStart = "waiting"
    /\ stopCh = "closed"
    /\ pcStart' = "done"
    /\ UNCHANGED <<ctx, includePatterns, excludePatterns, tenants, cache, queue,
                   running, synced, stopCh, listStart, pcHandler, listHandler,
                   lastRefresh>>
    /\ UNCHANGED <<headerVars, routerVars, extVars>>

WatcherNext ==
    \/ StartAsync
    \/ \E n \in Names : InformerAdd(n)
    \/ \E n \in Names : InformerDelete(n)
    \/ \E n \in Names : InformerUpdate(n)
    \/ \E o \in Names, n \in Names : InformerReplace(o, n)
    \/ InformerSynced
    \/ \E ok \in BOOLEAN : StartList(ok)
    \/ StartStore
    \/ \E ok \in BOOLEAN : HandlerTake(ok)
    \/ HandlerStore
    \/ StartListFailed
    \/ HandlerListFailed
    \/ \E p \in StopCallers : Stop(p)
    \/ \E p \in StopCallers : StopDefault(p)
    \/ StartReturn

InitWatcher == WatcherInit /\ HeaderIdle /\ RouterIdle /\ ExtIdle

\* the watcher started with a context that is not cancelled
SpecWatcher == InitWatcher /\ [][WatcherNext]_vars

\* the watcher with the contexts of its Start calls being cancelled, for
\* the filter that excludes "^k"
LifecycleNext ==
    \/ StartAsync
    \/ \E n \in Names : InformerAdd(n)
    \/ \E n \in Names : InformerDelete(n)
    \/ \E n \in Names : InformerUpdate(n)
    \/ \E o \in Names, n \in Names : InformerReplace(o, n)
    \/ InformerSynced
    \/ \E ok \in BOOLEAN : StartList(ok)
    \/ StartStore
    \/ \E ok \in BOOLEAN : HandlerTake(ok)
    \/ HandlerStore
    \/ StartListFailed
    \/ HandlerListFailed
    \/ \E p \in StopCallers : Stop(p)
    \/ \E p \in StopCallers : StopDefault(p)
    \/ StartReturn
    \/ CtxCancel
    \/ StartSyncFailed
    \/ StartCtxDone
    \/ StartStop
    \/ StartStopDefault
    \/ \E n \in Names : InformerResync(n)

InitLifecycle ==
    /\ includePatterns = <<>>
    /\ excludePatterns = <<ReK>>
    /\ WatcherNew
    /\ HeaderIdle
    /\ RouterIdle
    /\ ExtIdle

SpecLifecycle == InitLifecycle /\ [][LifecycleNext]_vars

-----------------------------------------------------------------------------
(* BuildOrgIDHeader called on a synced watcher after its initial refresh,    *)
(* for every filter configuration and every content of the cache           *)

HeaderInit ==
    /\ \E f \in FilterConfigs, S \in SUBSET Names :
          /\ includePatterns = f.inc
          /\ excludePatterns = f.exc
          /\ cache = S
          /\ tenants = computeTenants(f.inc, f.exc, S)
          /\ lastRefresh = [by |-> "start", listed |-> S, alone |-> TRUE]
    /\ queue = <<>>
    /\ running = TRUE
    /\ synced = TRUE
    /\ stopCh = "open"
    /\ pcStart = "waiting"
    /\ listStart = {}
    /\ pcHandler = "idle"
    /\ listHandler = {}
    /\ ctx = "live"
    /\ HeaderIdle
    /\ RouterIdle
    /\ ExtIdle

\* Watcher.BuildOrgIDHeader(m)
CallBuildOrgIDHeader(m) ==
    /\ maxLength' = m
    /\ header' = BuildOrgIDHeader(tenants, m)
    /\ built' = TRUE
    /\ UNCHANGED <<watcherVars, routerVars, extVars>>

HeaderNext ==
    \E m \in (0 - 1)..MaxHeaderLen : CallBuildOrgIDHeader(m)

SpecHeader == HeaderInit /\ [][HeaderNext]_vars

-----------------------------------------------------------------------------
(* The routers (internal/loki, internal/mimir) and the service-proxy client *)
(* (internal/proxy) serving one inbound request                             *)

\* the clusters of the configuration: c1 has a Loki and a Mimir endpoint,
\* c2 a Loki endpoint only; "nope" is no configured cluster
lokiClients == {"c1", "c2"}
mimirClients == {"c1"}
ClusterNames == {"c1", "c2", "nope"}

clients(backend) == IF backend = "loki" THEN lokiClients ELSE mimirClients

\* the form keys the handlers read
Keys == {"query", "start", "end", "match[]"}

\* the pairs of a URL query or of a form body: each key with its value,
\* "x" for the keys in filled and "" (as in "match[]=") for those in empty
pairs(filled, empty) ==
    [k \in filled \cup empty |-> IF k \in empty THEN "" ELSE "x"]

\* the URL queries and the bodies of the inbound requests
UrlQueries ==
    { NoPairs, pairs({"query"}, {}), pairs({"query", "start"}, {}),
      pairs({"query", "start", "end"}, {}), pairs({"match[]"}, {}),
      pairs({}, {"query"}), pairs({}, {"match[]"}) }
Bodies ==
    { NoPairs, pairs({"query"}, {}), pairs({"end"}, {}),
      pairs({"match[]"}, {}), pairs({}, {"query"}) }

\* where the request holds a pair url.ParseQuery rejects (a bad escape
\* such as "t=%zz", or a raw ";") next to its well-formed pairs: nowhere,
\* in the URL query, or in the body
Malformed == {"", "query", "body"}

\* canonical header keys
ScopeKey == "X-Scope-Orgid"

\* the header sets of the inbound requests: none; an X-Scope-OrgID of the
\* client's own ("kab"); two Accept values ("a", "ab") with a Connection
\* header; a Te header with one Accept value and an X-Scope-OrgID
InboundHeaders ==
    { <<>>,
      [k \in {ScopeKey} |-> << <<107, 97, 98>> >>],
      [k \in {"Accept", "Connection"} |->
          IF k = "Accept" THEN << <<97>>, <<97, 98>> >> ELSE << <<97>> >>],
      [k \in {"Accept", "Te", ScopeKey} |->
          IF k = ScopeKey THEN << <<107, 97, 98>> >> ELSE << <<97>> >>] }

Paths(backend) ==
    IF backend = "loki"
    THEN {"/api/v1/query", "/api/v1/query_range", "/api/v1/labels",
          "/api/v1/label/job/values", "/api/v1/series",
          "/api/v1/index/stats", "/api/v1/tail", "/other"}
    ELSE {"/api/v1/query", "/api/v1/query_range", "/api/v1/labels",
          "/api/v1/label/job/values", "/api/v1/series", "/api/v1/metadata",
          "/api/v1/query_exemplars", "/api/v1/read", "/other"}

Requests ==
    { r \in [backend : {"loki", "mimir"},
             cluster : ClusterNames,
             method  : {"GET", "POST"},
             path    : Paths("loki") \cup Paths("mimir"),
             query   : UrlQueries,
             form    : BOOLEAN,
             body    : Bodies,
             malformed : Malformed,
             headers : InboundHeaders] :
        r.path \in Paths(r.backend) }

\* RegisterRoutes and the ServeMux: the handler of the most specific
\* pattern that matches the method and the path
Route(backend, method, path) ==
    LET both == {"GET", "POST"}
        table ==
          IF backend = "loki"
          THEN { <<"/api/v1/query", both, "handleQuery">>,
                 <<"/api/v1/query_range", both, "handleQueryRange">>,
                 <<"/api/v1/labels", both, "handleLabels">>,
                 <<"/api/v1/label/job/values", {"GET"}, "handleLabelValues">>,
                 <<"/api/v1/series", both, "handleSeries">>,
                 <<"/api/v1/index/stats", both, "handleIndexStats">>,
                 <<"/api/v1/tail", {"GET"}, "handleTail">> }
          ELSE { <<"/api/v1/query", both, "handleQuery">>,
                 <<"/api/v1/query_range", both, "handleQueryRange">>,
                 <<"/api/v1/labels", both, "handleLabels">>,
                 <<"/api/v1/label/job/values", {"GET"}, "handleLabelValues">>,
                 <<"/api/v1/series", both, "handleSeries">>,
                 <<"/api/v1/metadata", {"GET"}, "handleMetadata">>,
                 <<"/api/v1/query_exemplars", both, "handleQueryExemplars">>,
                 <<"/api/v1/read", {"POST"}, "handleRemoteRead">> }
        hit == { e \in table : e[1] = path /\ method \in e[2] }
    IN  IF hit # {} THEN (CHOOSE e \in hit : TRUE)[3]
        ELSE "handleGenericProxy"

\* the handlers that call req.ParseForm()
ParsingHandlers ==
    {"handleQuery", "handleQueryRange", "handleSeries", "handleTail",
     "handleQueryExemplars"}

\* http.Request.ParseForm: req.Form, each key with its values, those of
\* the body before those of the URL query; the body is read only for a
\* POST whose Content-Type is application/x-www-form-urlencoded
ParseForm(r) ==
    LET posted == IF r.method = "POST" /\ r.form THEN r.body ELSE NoPairs
    IN  [k \in DOMAIN posted \cup DOMAIN r.query |->
            (IF k \in DOMAIN posted THEN <<posted[k]>> ELSE <<>>)
              \o (IF k \in DOMAIN r.query THEN <<r.query[k]>> ELSE <<>>)]

\* url.Values.Get: the first value of the key, "" when it has none
Get(form, k) == IF k \in DOMAIN form THEN form[k][1] ELSE ""

\* len(req.Form[k])
lenValues(form, k) == IF k \in DOMAIN form THEN Len(form[k]) ELSE 0

\* the error of http.Request.ParseForm: a malformed pair in the URL query,
\* or in the body when the body is parsed
parseFormFails(r) ==
    \/ r.malformed = "query"
    \/ r.malformed = "body" /\ r.method = "POST" /\ r.form

\* what ParseForm leaves unread of the body
afterParseForm(r, unread) ==
    IF r.method = "POST" /\ r.form THEN NoPairs ELSE unread

\* client lookup that finds a client for every cluster name
lookupClient_AnyCluster(backend, cluster) == TRUE

\* "client, ok := r.clients[clusterName]"
lookupClient(backend, cluster) == cluster \in clients(backend)

\* query_range validation that forgets to look at end
missingParameter_NoEnd(h, form) ==
    IF h \in {"handleQuery", "handleTail", "handleQueryExemplars"}
    THEN IF Get(form, "query") = ""
         THEN "missing required parameter: query" ELSE ""
    ELSE IF h = "handleQueryRange"
    THEN IF Get(form, "query") = ""
         THEN "missing required parameter: query"
         ELSE IF Get(form, "start") = ""
              THEN "missing required parameters: start and end" ELSE ""
    ELSE IF h = "handleSeries"
    THEN IF lenValues(form, "match[]") = 0
         THEN "missing required parameter: match[]" ELSE ""
    ELSE ""

\* the parameter checks of handler h on the parsed form: the message of
\* the 400 it answers, "" when it goes on to proxyRequest. The handlers
\* test the first value with Form.Get, handleSeries the number of values.
missingParameter(h, form) ==
    IF h \in {"handleQuery", "handleTail", "handleQueryExemplars"}
    THEN IF Get(form, "query") = ""
         THEN "missing required parameter: query" ELSE ""
    ELSE IF h = "handleQueryRange"
    THEN IF Get(form, "query") = ""
         THEN "missing required parameter: query"
         ELSE IF Get(form, "start") = "" \/ Get(form, "end") = ""
              THEN "missing required parameters: start and end" ELSE ""
    ELSE IF h = "handleSeries"
    THEN IF lenValues(form, "match[]") = 0
         THEN "missing required parameter: match[]" ELSE ""
    ELSE ""

\* Router.writeError: status, Content-Type and the encoded {"error": msg}
writeError(status, message) ==
    [status |-> status, contentType |-> "application/json",
     kind |-> "error-object", body |-> message]

notFoundMessage(backend) ==
    IF backend = "loki" THEN "cluster not found or loki not configured"
    ELSE "cluster not found or mimir not configured"

\* tenant.Registry.BuildOrgIDHeader
registryBuildOrgIDHeader(ws, cluster, maxLen) ==
    IF cluster \notin DOMAIN ws THEN <<>>
    ELSE BuildOrgIDHeader(ws[cluster], maxLen)

\* Router.buildProxyOptions: the AdditionalHeaders, NoValue for nil options
buildProxyOptions(ws, cluster, maxLen) ==
    LET orgID == registryBuildOrgIDHeader(ws, cluster, maxLen)
    IN  IF orgID = <<>> THEN NoValue
        ELSE [k \in {ScopeKey} |-> <<orgID>>]

\* proxy.filterHeaders
HopByHop ==
    {"Connection", "Keep-Alive", "Proxy-Authenticate", "Proxy-Authorization",
     "Te", "Trailers", "Transfer-Encoding", "Upgrade", "Accept-Encoding"}

filterHeaders(headers) ==
    [k \in (DOMAIN headers) \ HopByHop |-> headers[k]]

\* ProxyHTTP: "headers.Add(key, value)" for every additional header
addHeaders(headers, additional) ==
    IF additional = NoValue THEN headers
    ELSE [k \in (DOMAIN headers) \cup (DOMAIN additional) |->
            (IF k \in DOMAIN headers THEN headers[k] ELSE <<>>)
            \o (IF k \in DOMAIN additional THEN additional[k] ELSE <<>>)]

\* ProxyRequest: "restReq.SetHeader(key, value)" once per value; SetHeader
\* deletes the key before it adds, so the last value stays
setHeaders(headers) ==
    [k \in DOMAIN headers |-> <<headers[k][Len(headers[k])]>>]

\* what the API server and the backend can answer
StatusCodes == {200, 404, 500}
BackendBodies == { <<123, 125>>, <<98, 97, 100>> }
\* the messages of transport errors: EOF, and Get "u": EOF
TransportErrors ==
    { <<69, 79, 70>>, <<71, 101, 116, 32, 34, 117, 34, 58, 32, 69, 79, 70>> }

Outcomes ==
    [kind : {"transport"}, status : {0}, body : {<<>>}, msg : TransportErrors]
    \cup
    [kind : {"http"}, status : StatusCodes, body : BackendBodies, msg : {<<>>}]

\* rest.Result.Raw(): the body and the error of the result; a status
\* outside 200..206 is an error ("status")
Raw(res) ==
    IF res.kind = "transport"
    THEN [body |-> <<>>, err |-> res.msg]
    ELSE IF res.status < 200 \/ res.status > 206
         THEN [body |-> res.body,
               err |-> <<115, 116, 97, 116, 117, 115>>]
         ELSE [body |-> res.body, err |-> <<>>]

\* Client.ProxyRequest from result.Raw() on: the Response and the error
ProxyRequest(res) ==
    LET raw == Raw(res)
    IN  IF raw.err # <<>>
        THEN [StatusCode |-> 502, Body |-> raw.body, err |-> raw.err]
        ELSE [StatusCode |-> IF res.status = 0 THEN 200 ELSE res.status,
              Body |-> raw.body, err |-> <<>>]

\* `{"error": "proxy request failed: ` and `"}`
FailedPrefix ==
    <<123, 34, 101, 114, 114, 111, 114, 34, 58, 32, 34, 112, 114, 111, 120,
      121, 32, 114, 101, 113, 117, 101, 115, 116, 32, 102, 97, 105, 108, 101,
      100, 58, 32>>
FailedSuffix == <<34, 125>>

\* ProxyHTTP from the return of ProxyRequest on: the response it writes
writeProxyResponse(pr) ==
    IF pr.err # <<>>
    THEN [status |-> 502, contentType |-> "application/json",
          kind |-> "bytes", body |-> FailedPrefix \o pr.err \o FailedSuffix]
    ELSE [status |-> pr.StatusCode, contentType |-> "application/json",
          kind |-> "bytes", body |-> pr.Body]

\* c1's watcher holds the tenants "a" and "ab", c2's watcher none; the
\* configured maximum header length is 0 (no limit) or 2
RouterInit ==
    /\ watchers = [c \in {"c1", "c2"} |->
                     IF c = "c1" THEN << <<97>>, <<97, 98>> >> ELSE <<>>]
    /\ maxOrgIDLength \in {0, 2}
    /\ req = NoValue
    /\ reqBody = NoPairs
    /\ bodyClosed = FALSE
    /\ pc = "idle"
    /\ handler = ""
    /\ opts = NoValue
    /\ upstream = NoValue
    /\ result = NoValue
    /\ resp = NoValue
    /\ steps = <<>>

\* the ServeMux dispatches an inbound request
Receive ==
    /\ pc = "idle"
    /\ \E r \in Requests :
          /\ req' = r
          /\ reqBody' = r.body
          /\ handler' = Route(r.backend, r.method, r.path)
    /\ pc' = "lookup"
    /\ UNCHANGED <<watchers, maxOrgIDLength, bodyClosed, opts, upstream,
                   result, resp, steps>>
    /\ UNCHANGED <<watcherVars, headerVars, extVars>>

\* every handler starts with the lookup of the cluster's client
Lookup ==
    /\ pc = "lookup"
    /\ IF lookupClient(req.backend, req.cluster)
       THEN /\ pc' = "validate"
            /\ steps' = Append(steps, "lookup")
            /\ UNCHANGED resp
       ELSE /\ pc' = "done"
            /\ steps' = steps \o <<"lookup", "write">>
            /\ resp' = writeError(404, notFoundMessage(req.backend))
    /\ UNCHANGED <<watchers, maxOrgIDLength, req, reqBody, bodyClosed,
                   handler, opts, upstream, result>>
    /\ UNCHANGED <<watcherVars, headerVars, extVars>>

\* the handlers with required parameters parse the form and check it
Validate ==
    /\ pc = "validate"
    /\ handler \in ParsingHandlers
    /\ reqBody' = afterParseForm(req, reqBody)
    /\ LET message == IF parseFormFails(req) THEN "failed to parse form"
                       ELSE missingParameter(handler, ParseForm(req))
       IN  IF message = ""
           THEN /\ pc' = "options"
                /\ steps' = Append(steps, "validate")
                /\ UNCHANGED resp
           ELSE /\ pc' = "done"
                /\ steps' = steps \o <<"validate", "write">>
                /\ resp' = writeError(400, message)
    /\ UNCHANGED <<watchers, maxOrgIDLength, req, bodyClosed, handler, opts,
                   upstream, result>>
    /\ UNCHANGED <<watcherVars, headerVars, extVars>>

\* the other handlers go to proxyRequest at once
NoValidation ==
    /\ pc = "validate"
    /\ handler \notin ParsingHandlers
    /\ pc' = "options"
    /\ UNCHANGED <<watchers, maxOrgIDLength, req, reqBody, bodyClosed,
                   handler, opts, upstream, result, resp, steps>>
    /\ UNCHANGED <<watcherVars, headerVars, extVars>>

\* proxyRequest: buildProxyOptions
BuildOptions ==
    /\ pc = "options"
    /\ opts' = buildProxyOptions(watchers, req.cluster, maxOrgIDLength)
    /\ steps' = Append(steps, "build")
    /\ pc' = "forward"
    /\ UNCHANGED <<watchers, maxOrgIDLength, req, reqBody, bodyClosed,
                   handler, upstream, result, resp>>
    /\ UNCHANGED <<watcherVars, headerVars, extVars>>

\* ProxyHTTP up to the return of restReq.Do: the headers are filtered and
\* merged, the unread body is streamed upstream, the call comes back; the
\* query is r.URL.Query(), which holds the well-formed pairs only
Forward ==
    /\ pc = "forward"
    /\ \E outcome \in Outcomes : result' = outcome
    /\ upstream' =
          [method  |-> req.method,
           query   |-> req.query,
           headers |-> setHeaders(addHeaders(filterHeaders(req.headers), opts)),
           body    |-> reqBody]
    /\ reqBody' = NoPairs
    /\ steps' = Append(steps, "forward")
    /\ pc' = "write"
    /\ UNCHANGED <<watchers, maxOrgIDLength, req, bodyClosed, handler, opts,
                   resp>>
    /\ UNCHANGED <<watcherVars, headerVars, extVars>>

\* ProxyHTTP writes the response and returns, which runs the deferred
\* r.Body.Close()
WriteResponse ==
    /\ pc = "write"
    /\ resp' = writeProxyResponse(ProxyRequest(result))
    /\ bodyClosed' = TRUE
    /\ steps' = Append(steps, "write")
    /\ pc' = "done"
    /\ UNCHANGED <<watchers, maxOrgIDLength, req, reqBody, handler, opts,
                   upstream, result>>
    /\ UNCHANGED <<watcherVars, headerVars, extVars>>

RouterNext ==
    \/ Receive
    \/ Lookup
    \/ Validate
    \/ NoValidation
    \/ BuildOptions
    \/ Forward
    \/ WriteResponse

InitRouter == WatcherIdle /\ HeaderIdle /\ RouterInit /\ ExtIdle

SpecRouter == InitRouter /\ [][RouterNext]_vars

-----------------------------------------------------------------------------
(* Client.ProxyHTTP and Client.ProxyRequest building the URI they call on  *)
(* the API server                                                          *)

\* "/api/v1/namespaces/", "/services/", ":" and "/proxy"
ApiNamespaces ==
    <<47, 97, 112, 105, 47, 118, 49, 47, 110, 97, 109, 101, 115, 112, 97,
      99, 101, 115, 47>>
ServicesSegment == <<47, 115, 101, 114, 118, 105, 99, 101, 115, 47>>
Colon == <<58>>
ProxySegment == <<47, 112, 114, 111, 120, 121>>
Slash == <<47>>
QuestionMark == <<63>>

\* the strip prefix the Loki router passes for cluster c1:
\* "/clusters/c1/loki"
StripPrefix ==
    <<47, 99, 108, 117, 115, 116, 101, 114, 115, 47, 99, 49, 47, 108, 111,
      107, 105>>

\* what follows the strip prefix in r.URL.Path: "", "/", "/a", "/q/r"
Suffixes == { <<>>, <<47>>, <<47, 97>>, <<47, 113, 47, 114>> }

\* the clients NewClient accepts: namespace "ns", service "svc", a positive
\* port, and a path prefix "" or "/loki"
ClientConfigs ==
    [namespace : { <<110, 115>> },
     service : { <<115, 118, 99>> },
     port : {80, 3100},
     pathPrefix : { <<>>, <<47, 108, 111, 107, 105>> }]

\* query keys "q" and "t"; query values "a", "a b" and "x|y"
QueryKeys == { <<113>>, <<116>> }
QueryValues == { <<97>>, <<97, 32, 98>>, <<120, 124, 121>> }

\* the url.Values r.URL.Query() can return: each key present has one value
\* or two
QueryMaps ==
    UNION { [K -> { <<v>> : v \in QueryValues }
                  \cup { <<v, w>> : v \in {<<97>>}, w \in QueryValues }] :
            K \in SUBSET QueryKeys }

\* fmt's %d of a non-negative int
RECURSIVE Itoa(_)
Itoa(n) ==
    IF n < 10 THEN <<48 + n>>
    ELSE Itoa(n \div 10) \o <<48 + (n % 10)>>

\* strings.TrimPrefix
TrimPrefix(s, p) ==
    IF HasPrefix(s, p) THEN SubSeq(s, Len(p) + 1, Len(s)) ELSE s

\* url.QueryEscape: letters, digits and - _ . ~ stay, a space becomes '+',
\* any other byte becomes %XX in upper-case hexadecimal
HexDigit(d) == IF d < 10 THEN 48 + d ELSE 55 + d

escapeByte(b) ==
    IF \/ (b >= 97 /\ b <= 122) \/ (b >= 65 /\ b <= 90) \/ (b >= 48 /\ b <= 57)
       \/ b \in {45, 95, 46, 126}
    THEN <<b>>
    ELSE IF b = 32 THEN <<43>>
    ELSE <<37, HexDigit(b \div 16), HexDigit(b % 16)>>

RECURSIVE QueryEscape(_)
QueryEscape(str) ==
    IF str = <<>> THEN <<>>
    ELSE escapeByte(Head(str)) \o QueryEscape(Tail(str))

\* url.Values.Encode: the keys sorted, every value of a key in its order,
\* each as key=value, joined by '&'
RECURSIVE encodeFrom(_, _, _, _)
encodeFrom(v, keys, i, buf) ==
    IF keys = <<>> THEN buf
    ELSE IF i > Len(v[Head(keys)]) THEN encodeFrom(v, Tail(keys), 1, buf)
    ELSE encodeFrom(v, keys, i + 1,
            buf \o (IF buf = <<>> THEN <<>> ELSE <<38>>)
                \o QueryEscape(Head(keys)) \o <<61>>
                \o QueryEscape(v[Head(keys)][i]))

Encode(v) == encodeFrom(v, SortStrings(DOMAIN v), 1, <<>>)

\* ProxyHTTP that leaves an empty path empty
stripPath_KeepEmpty(urlPath, strip) == TrimPrefix(urlPath, strip)

\* ProxyHTTP: the path after the strip prefix, "/" when nothing is left
stripPath(urlPath, strip) ==
    LET path == TrimPrefix(urlPath, strip)
    IN  IF path = <<>> THEN Slash ELSE path

\* ProxyRequest: servicePath, the URI given to RequestURI
buildServicePath(c, r) ==
    LET fullPath == c.pathPrefix \o r.Path
        base == ApiNamespaces \o c.namespace \o ServicesSegment \o c.service
                  \o Colon \o Itoa(c.port) \o ProxySegment \o fullPath
    IN  IF Cardinality(DOMAIN r.Query) > 0
        THEN base \o QuestionMark \o Encode(r.Query)
        ELSE base

UriInit ==
    /\ proxyClient \in ClientConfigs
    /\ uriReq \in [path : { StripPrefix \o x : x \in Suffixes },
                   strip : {StripPrefix},
                   query : QueryMaps]
    /\ proxyReq = NoValue
    /\ servicePath = NoValue

\* ProxyHTTP up to the Request it builds
ProxyHTTPBuildRequest ==
    /\ proxyReq = NoValue
    /\ proxyReq' = [Path |-> stripPath(uriReq.path, uriReq.strip),
                    Query |-> uriReq.query]
    /\ UNCHANGED <<proxyClient, uriReq, servicePath>>
    /\ UNCHANGED notUriVars

\* ProxyRequest up to RequestURI(servicePath)
ProxyRequestURI ==
    /\ proxyReq # NoValue
    /\ servicePath = NoValue
    /\ servicePath' = buildServicePath(proxyClient, proxyReq)
    /\ UNCHANGED <<proxyClient, uriReq, proxyReq>>
    /\ UNCHANGED notUriVars

UriNext ==
    \/ ProxyHTTPBuildRequest
    \/ ProxyRequestURI

InitUri ==
    WatcherIdle /\ HeaderIdle /\ RouterIdle /\ UriInit /\ TokenIdle
      /\ HealthIdle /\ ConfigIdle /\ MoreIdle

SpecUri == InitUri /\ [][UriNext]_vars

-----------------------------------------------------------------------------
(* eksTokenTransport: RoundTrip, getToken and generateToken, run by several *)
(* goroutines while time passes; the clock counts minutes                   *)

\* getToken returning whatever token it holds, however old
cachedTokenValid_Forever == token # 0

\* getToken returning the token it holds up to its expiry
cachedTokenValid_NoBuffer == token # 0 /\ now < expiry

\* getToken: "t.token != "" && time.Now().Add(time.Minute).Before(t.expiry)"
cachedTokenValid == token # 0 /\ now + RefreshBuffer < expiry

\* mu.Lock() that never blocks
lockFree_Always == TRUE

\* mu.Lock() returns when no goroutine holds the mutex
lockFree == mu = 0

\* a failed generateToken that clears the token cell
cellAfterError_Cleared == [token |-> 0, expiry |-> 0]

\* getToken returns the error of generateToken before it assigns t.token
\* and t.expiry
cellAfterError == [token |-> token, expiry |-> expiry]

\* a goroutine calls RoundTrip, which calls getToken, which calls mu.Lock()
StartRoundTrip(p) ==
    /\ trips[p].pc \in {"idle", "done"}
    /\ LET inFlight == { q \in Procs \ {p} :
                            trips[q].pc \in {"waiting", "minting"} }
       IN  trips' = [q \in Procs |->
                IF q = p
                THEN [NoTrip EXCEPT !.pc = "waiting",
                                    !.stale = ~cachedTokenValid,
                                    !.m0 = mints,
                                    !.peers = inFlight]
                ELSE [trips[q] EXCEPT !.peers =
                        IF q \in inFlight THEN @ \cup {p} ELSE @ \ {p}]]
    /\ UNCHANGED <<token, expiry, now, mu, mints>>
    /\ UNCHANGED notTokenVars

\* getToken gets the mutex: it returns the cached token if that is still
\* valid and keeps the mutex to generate a token otherwise
GetTokenLocked(p) ==
    /\ trips[p].pc = "waiting"
    /\ lockFree
    /\ IF cachedTokenValid
       THEN /\ trips' = [trips EXCEPT ![p].pc = "have", ![p].tok = token,
                                      ![p].m1 = mints]
            /\ mu' = 0
       ELSE /\ trips' = [trips EXCEPT ![p].pc = "minting"]
            /\ mu' = p
    /\ UNCHANGED <<token, expiry, now, mints>>
    /\ UNCHANGED notTokenVars

\* generateToken succeeds: getToken stores the token with an expiry 14
\* minutes from now, unlocks and returns it
GenerateTokenOk(p) ==
    /\ trips[p].pc = "minting"
    /\ mints < MaxMints
    /\ mints' = mints + 1
    /\ token' = mints + 1
    /\ expiry' = now + TokenValidity
    /\ mu' = 0
    /\ trips' = [trips EXCEPT ![p].pc = "have", ![p].tok = mints + 1,
                              ![p].m1 = mints + 1, ![p].minted = TRUE]
    /\ UNCHANGED now
    /\ UNCHANGED notTokenVars

\* generateToken fails: getToken unlocks and returns the error, and so
\* does RoundTrip
GenerateTokenFail(p) ==
    /\ trips[p].pc = "minting"
    /\ mu' = 0
    /\ trips' = [trips EXCEPT ![p].pc = "done", ![p].err = TRUE,
                              ![p].m1 = mints]
    /\ token' = cellAfterError.token
    /\ expiry' = cellAfterError.expiry
    /\ UNCHANGED <<now, mints>>
    /\ UNCHANGED notTokenVars

\* RoundTrip sets the Authorization header and calls base.RoundTrip
BaseRoundTrip(p) ==
    /\ trips[p].pc = "have"
    /\ trips' = [trips EXCEPT ![p].pc = "done", ![p].sent = TRUE]
    /\ UNCHANGED <<token, expiry, now, mu, mints>>
    /\ UNCHANGED notTokenVars

\* a minute passes; a goroutine blocked in mu.Lock() gets a free mutex
\* sooner than that
Tick ==
    /\ now < MaxTime
    /\ ~(lockFree /\ \E p \in Procs : trips[p].pc = "waiting")
    /\ now' = now + 1
    /\ UNCHANGED <<token, expiry, mu, mints, trips>>
    /\ UNCHANGED notTokenVars

TokenNext ==
    \/ \E p \in Procs : StartRoundTrip(p)
    \/ \E p \in Procs : GetTokenLocked(p)
    \/ \E p \in Procs : GenerateTokenOk(p)
    \/ \E p \in Procs : GenerateTokenFail(p)
    \/ \E p \in Procs : BaseRoundTrip(p)
    \/ Tick

InitToken == WatcherIdle /\ HeaderIdle /\ RouterIdle /\ ExtIdle

SpecToken == InitToken /\ [][TokenNext]_vars

-----------------------------------------------------------------------------
(* cluster.Registry.HealthCheck and Server.handleReadyz *)

HealthClusters == {"c1", "c2", "c3"}

\* what ServerVersion() returns: nil ("ok") or an error ("refused")
ProbeResults == {"ok", "refused"}

HealthInit ==
    /\ registered \in SUBSET HealthClusters
    /\ probes = [c \in registered |-> "idle"]
    /\ results = <<>>
    /\ hcPc = "idle"
    /\ readyz = NoValue

\* handleReadyz calls HealthCheck, which copies the clusters and starts one
\* goroutine for each
HealthCheckStart ==
    /\ hcPc = "idle"
    /\ probes' = [c \in registered |-> "running"]
    /\ hcPc' = "waiting"
    /\ UNCHANGED <<registered, results, readyz>>
    /\ UNCHANGED notHealthVars

\* a probe goroutine: ServerVersion() returns, the result is stored under
\* resultsMu, wg.Done()
ProbeDone(c, err) ==
    /\ c \in DOMAIN probes
    /\ probes[c] = "running"
    /\ results' = [k \in (DOMAIN results) \cup {c} |->
                      IF k = c THEN err ELSE results[k]]
    /\ probes' = [probes EXCEPT ![c] = "done"]
    /\ UNCHANGED <<registered, hcPc, readyz>>
    /\ UNCHANGED notHealthVars

\* HealthCheck that returns without wg.Wait()
waitDone_NoWait == TRUE

\* wg.Wait() returns: every goroutine has called wg.Done()
waitDone == \A c \in DOMAIN probes : probes[c] = "done"

\* HealthCheck returns the results
HealthCheckReturn ==
    /\ hcPc = "waiting"
    /\ waitDone
    /\ hcPc' = "returned"
    /\ UNCHANGED <<registered, probes, results, readyz>>
    /\ UNCHANGED notHealthVars

\* handleReadyz writes its answer from the results
WriteReadyz ==
    /\ hcPc = "returned"
    /\ LET allHealthy == \A c \in DOMAIN results : results[c] = "ok"
       IN  readyz' = [code |-> IF allHealthy THEN 200 ELSE 503,
                      status |-> IF allHealthy THEN "ok" ELSE "degraded",
                      clusters |-> results]
    /\ hcPc' = "answered"
    /\ UNCHANGED <<registered, probes, results>>
    /\ UNCHANGED notHealthVars

HealthNext ==
    \/ HealthCheckStart
    \/ \E c \in HealthClusters, err \in ProbeResults : ProbeDone(c, err)
    \/ HealthCheckReturn
    \/ WriteReadyz

InitHealth ==
    WatcherIdle /\ HeaderIdle /\ RouterIdle /\ UriIdle /\ TokenIdle
      /\ HealthInit /\ ConfigIdle /\ MoreIdle

SpecHealth == InitHealth /\ [][HealthNext]_vars

-----------------------------------------------------------------------------
(* config.Config.Validate and cluster.NewRegistry *)

\* a ServiceConfig that proxy.NewClient accepts
GoodEndpoint == [namespace |-> "observability", service |-> "gateway", port |-> 3100]

\* the cluster descriptors a configuration file can hold: three that pass
\* Validate (two of them named c1), one for each way to fail it, one with
\* both a Loki and a Mimir endpoint, and three that pass Validate with an
\* endpoint proxy.NewClient rejects
Descriptors ==
    { [name |-> "c1", type |-> "kubeconfig", auth |-> "kubeconfig", backend |-> "loki", endpoint |-> GoodEndpoint],
      [name |-> "c1", type |-> "eks", auth |-> "eks", backend |-> "mimir", endpoint |-> GoodEndpoint],
      [name |-> "c2", type |-> "kubeconfig", auth |-> "kubeconfig", backend |-> "loki", endpoint |-> GoodEndpoint],
      [name |-> "", type |-> "eks", auth |-> "eks", backend |-> "loki", endpoint |-> GoodEndpoint],
      [name |-> "c2", type |-> "", auth |-> "eks", backend |-> "loki", endpoint |-> GoodEndpoint],
      [name |-> "c2", type |-> "gke", auth |-> "eks", backend |-> "loki", endpoint |-> GoodEndpoint],
      [name |-> "c2", type |-> "eks", auth |-> "kubeconfig", backend |-> "loki", endpoint |-> GoodEndpoint],
      [name |-> "c2", type |-> "kubeconfig", auth |-> "eks", backend |-> "loki", endpoint |-> GoodEndpoint],
      [name |-> "c2", type |-> "eks", auth |-> "eks", backend |-> "none", endpoint |-> GoodEndpoint],
      [name |-> "c2", type |-> "eks", auth |-> "eks", backend |-> "mimir", endpoint |-> [GoodEndpoint EXCEPT !.port = 0]],
      [name |-> "c2", type |-> "eks", auth |-> "eks", backend |-> "both", endpoint |-> GoodEndpoint],
      [name |-> "c2", type |-> "eks", auth |-> "eks", backend |-> "loki",
       endpoint |-> [GoodEndpoint EXCEPT !.namespace = ""]],
      [name |-> "c2", type |-> "eks", auth |-> "eks", backend |-> "mimir",
       endpoint |-> [GoodEndpoint EXCEPT !.service = ""]] }

Configs ==
    [listenAddress : {"", ":8080"},
     clusters : UNION { [1..n -> Descriptors] : n \in 0..MaxClusters }]

\* fmt.Errorf("clusters[%d]...", i) for the cluster at position i of the
\* sequence, which the code counts from 0
clusterError(i, text) == <<"clusters[", i - 1, "]", text>>

\* the loop of Config.Validate from cluster i on: <<"ok">> for nil, or the
\* first error
RECURSIVE validateFrom(_, _)
validateFrom(cs, i) ==
    IF i > Len(cs) THEN <<"ok">>
    ELSE IF cs[i].name = "" THEN clusterError(i, ".name is required")
    ELSE IF cs[i].type = "" THEN clusterError(i, ".type is required")
    ELSE IF cs[i].type # "eks" /\ cs[i].type # "kubeconfig"
         THEN clusterError(i, ".type must be 'eks' or 'kubeconfig'")
    ELSE IF cs[i].type = "eks" /\ cs[i].auth # "eks"
         THEN clusterError(i, ".eks is required when type is 'eks'")
    ELSE IF cs[i].type = "kubeconfig" /\ cs[i].auth # "kubeconfig"
         THEN clusterError(i, ".kubeconfig is required when type is 'kubeconfig'")
    ELSE IF cs[i].backend = "none"
         THEN clusterError(i, " must have at least one of loki or mimir configured")
    ELSE validateFrom(cs, i + 1)

\* Config.Validate
ValidateConfig(c) ==
    IF c.listenAddress = "" THEN <<"proxy.listenAddress is required">>
    ELSE validateFrom(c.clusters, 1)

\* NewRegistry: "r.clusters[cfg.Name] = cluster" for each descriptor in
\* turn, so the last descriptor of a name stays
registerAll(cs) ==
    [n \in { cs[i].name : i \in DOMAIN cs } |->
        CHOOSE i \in DOMAIN cs :
            /\ cs[i].name = n
            /\ \A j \in DOMAIN cs : cs[j].name = n => j <= i]

ConfigInit ==
    /\ cfg \in Configs
    /\ validation = <<"pending">>
    /\ clusterRegistry = NoValue
    /\ proxyClients = NoValue
    /\ wireReq = NoValue
    /\ wireResp = NoValue

\* config.Load calls cfg.Validate()
CallValidate ==
    /\ validation = <<"pending">>
    /\ validation' = ValidateConfig(cfg)
    /\ UNCHANGED <<cfg, clusterRegistry, proxyClients, wireReq, wireResp>>
    /\ UNCHANGED notConfigVars

\* cluster.NewRegistry on the clusters of an accepted configuration, every
\* createCluster succeeding
CallNewRegistry ==
    /\ validation = <<"ok">>
    /\ clusterRegistry = NoValue
    /\ clusterRegistry' = registerAll(cfg.clusters)
    /\ UNCHANGED <<cfg, validation, proxyClients, wireReq, wireResp>>
    /\ UNCHANGED notConfigVars

\* cluster.NewRegistry when createCluster fails for descriptor i: no
\* registry is returned
NewRegistryFailed(i) ==
    /\ validation = <<"ok">>
    /\ clusterRegistry = NoValue
    /\ i \in DOMAIN cfg.clusters
    /\ clusterRegistry' = [failed |-> cfg.clusters[i].name]
    /\ UNCHANGED <<cfg, validation, proxyClients, wireReq, wireResp>>
    /\ UNCHANGED notConfigVars

\* Cluster.Client of the cluster createCluster made from descriptor i
k8sClientOf(i) == [cluster |-> i]

\* proxy.NewClient for the endpoint of descriptor i: nil with an error when
\* a guard rejects the configuration, else the client, which holds the
\* Kubernetes client and the endpoint it was built from
NewClient(k8sClient, endpoint, i) ==
    IF k8sClient = NoValue THEN NoValue
    ELSE IF endpoint.namespace = "" THEN NoValue
    ELSE IF endpoint.service = "" THEN NoValue
    ELSE IF endpoint.port <= 0 THEN NoValue
    ELSE [connector |-> k8sClient, endpoint |-> i]

\* m[name] = client of a Go map
mapPut(m, name, client) ==
    [n \in DOMAIN m \cup {name} |-> IF n = name THEN client ELSE m[n]]

\* one pass of the loop of createProxyClients, for the descriptor at i:
\* the Loki client if clusterCfg.Loki != nil, then the Mimir client if
\* clusterCfg.Mimir != nil
createClientsFor(cs, reg, i, made) ==
    IF cs[i].name \notin DOMAIN reg THEN made
    ELSE LET client == NewClient(k8sClientOf(reg[cs[i].name]), cs[i].endpoint, i)
             withLoki ==
                 IF cs[i].backend \in {"loki", "both"} /\ client # NoValue
                 THEN [made EXCEPT !.loki = mapPut(@, cs[i].name, client)]
                 ELSE made
         IN  IF cs[i].backend \in {"mimir", "both"} /\ client # NoValue
             THEN [withLoki EXCEPT !.mimir = mapPut(@, cs[i].name, client)]
             ELSE withLoki

\* the loop of createProxyClients from descriptor i on
RECURSIVE createProxyClientsFrom(_, _, _, _)
createProxyClientsFrom(cs, reg, i, made) ==
    IF i > Len(cs) THEN made
    ELSE createProxyClientsFrom(cs, reg, i + 1,
                                createClientsFor(cs, reg, i, made))

\* server.New with the registry NewRegistry returned
createProxyClients ==
    /\ clusterRegistry # NoValue
    /\ "failed" \notin DOMAIN clusterRegistry
    /\ proxyClients = NoValue
    /\ proxyClients' =
          createProxyClientsFrom(cfg.clusters, clusterRegistry, 1,
                                 [loki |-> <<>>, mimir |-> <<>>])
    /\ UNCHANGED <<cfg, validation, clusterRegistry, wireReq, wireResp>>
    /\ UNCHANGED notConfigVars

RequestedClusters == {"c1", "c2", "c3"}

\* a request under /clusters/{cluster}/loki or /clusters/{cluster}/mimir:
\* the router looks the cluster up in its client map and answers 404 when
\* it holds none; status 0 stands for whatever the upstream answers
RouteToClient(backend, cluster) ==
    /\ proxyClients # NoValue
    /\ wireReq = NoValue
    /\ wireReq' = [backend |-> backend, cluster |-> cluster]
    /\ wireResp' =
          IF cluster \in DOMAIN proxyClients[backend]
          THEN [forwarded |-> TRUE, status |-> 0,
                via |-> proxyClients[backend][cluster]]
          ELSE [forwarded |-> FALSE, status |-> 404, via |-> NoValue]
    /\ UNCHANGED <<cfg, validation, clusterRegistry, proxyClients>>
    /\ UNCHANGED notConfigVars

ConfigNext ==
    \/ CallValidate
    \/ CallNewRegistry
    \/ \E i \in 1..MaxClusters : NewRegistryFailed(i)
    \/ createProxyClients
    \/ \E backend \in {"loki", "mimir"}, cluster \in RequestedClusters :
          RouteToClient(backend, cluster)

InitConfig ==
    WatcherIdle /\ HeaderIdle /\ RouterIdle /\ UriIdle /\ TokenIdle
      /\ HealthIdle /\ ConfigInit /\ MoreIdle

SpecConfig == InitConfig /\ [][ConfigNext]_vars

-----------------------------------------------------------------------------
(* Server.Run and Server.Shutdown *)

\* the clusters that can have a tenant watcher
WatchedClusters == {"c1", "c2"}

\* a server with no tenant registry (no watcher) or one with watchers that
\* Registry.Start has started
ShutdownInit ==
    /\ srvPc = "running"
    /\ watcherStops \in { [c \in W |-> "open"] : W \in SUBSET WatchedClusters }
    /\ httpState = "serving"
    /\ inflight = 0
    /\ elapsed = 0
    /\ shutdownErr = "pending"

\* the http.Server accepts a request
RequestArrives ==
    /\ httpState = "serving"
    /\ inflight < MaxInflight
    /\ inflight' = inflight + 1
    /\ UNCHANGED <<srvPc, watcherStops, httpState, elapsed, shutdownErr>>
    /\ UNCHANGED notShutdownVars

\* a request in flight is answered
RequestDone ==
    /\ inflight > 0
    /\ httpState # "closed"
    /\ inflight' = inflight - 1
    /\ UNCHANGED <<srvPc, watcherStops, httpState, elapsed, shutdownErr>>
    /\ UNCHANGED notShutdownVars

\* Run receives SIGINT or SIGTERM and calls Shutdown, which makes its
\* context
ShutdownBegin ==
    /\ srvPc = "running"
    /\ srvPc' = "stopping"
    /\ elapsed' = 0
    /\ UNCHANGED <<watcherStops, httpState, inflight, shutdownErr>>
    /\ UNCHANGED notShutdownVars

\* tenant.Registry.Stop: the loop over the watchers calls Stop on one more
StopWatcher(c) ==
    /\ srvPc = "stopping"
    /\ c \in DOMAIN watcherStops
    /\ watcherStops[c] = "open"
    /\ watcherStops' = [watcherStops EXCEPT ![c] = "closed"]
    /\ UNCHANGED <<srvPc, httpState, inflight, elapsed, shutdownErr>>
    /\ UNCHANGED notShutdownVars

\* Shutdown that calls httpServer.Shutdown without Registry.Stop
registryStopReturned_Skipped == TRUE

\* tenant.Registry.Stop has returned: its loop has called every Stop
registryStopReturned ==
    \A c \in DOMAIN watcherStops : watcherStops[c] = "closed"

\* Shutdown calls httpServer.Shutdown(ctx), which closes the listeners
HTTPShutdownBegin ==
    /\ srvPc = "stopping"
    /\ registryStopReturned
    /\ httpState' = "shuttingDown"
    /\ srvPc' = "draining"
    /\ UNCHANGED <<watcherStops, inflight, elapsed, shutdownErr>>
    /\ UNCHANGED notShutdownVars

\* the context of Shutdown is done
ctxDone == elapsed >= ShutdownTimeout

\* httpServer.Shutdown returns nil: no request is in flight
DrainDone ==
    /\ srvPc = "draining"
    /\ inflight = 0
    /\ httpState' = "closed"
    /\ shutdownErr' = "nil"
    /\ srvPc' = "returned"
    /\ UNCHANGED <<watcherStops, inflight, elapsed>>
    /\ UNCHANGED notShutdownVars

\* httpServer.Shutdown returns ctx.Err(): the context is done
DrainDeadline ==
    /\ srvPc = "draining"
    /\ ctxDone
    /\ shutdownErr' = "context deadline exceeded"
    /\ srvPc' = "returned"
    /\ UNCHANGED <<watcherStops, httpState, inflight, elapsed>>
    /\ UNCHANGED notShutdownVars

\* a second passes while Shutdown runs; httpServer.Shutdown does not wait
\* once its context is done
ShutdownTick ==
    /\ srvPc \in {"stopping", "draining"}
    /\ ~(srvPc = "draining" /\ ctxDone)
    /\ elapsed < MaxElapsed
    /\ elapsed' = elapsed + 1
    /\ UNCHANGED <<srvPc, watcherStops, httpState, inflight, shutdownErr>>
    /\ UNCHANGED notShutdownVars

ShutdownNext ==
    \/ RequestArrives
    \/ RequestDone
    \/ ShutdownBegin
    \/ \E c \in WatchedClusters : StopWatcher(c)
    \/ HTTPShutdownBegin
    \/ DrainDone
    \/ DrainDeadline
    \/ ShutdownTick

InitShutdown ==
    WatcherIdle /\ HeaderIdle /\ RouterIdle /\ UriIdle /\ TokenIdle
      /\ HealthIdle /\ ConfigIdle /\ ShutdownInit /\ ChainIdle /\ RaceIdle
      /\ StopIdle

SpecShutdown == InitShutdown /\ [][ShutdownNext]_vars

-----------------------------------------------------------------------------
(* Server.buildHandlerChain and the middleware: one request through the    *)
(* chain; a handler is named by the function that made it                   *)

\* the loop of middleware.Chain: "for i := len(middlewares) - 1; i >= 0;
\* i-- { handler = middlewares[i](handler) }", a handler being the
\* sequence of its layers, outermost first
RECURSIVE chainLoop(_, _, _)
chainLoop(h, middlewares, i) ==
    IF i < 1 THEN h
    ELSE chainLoop(<<middlewares[i]>> \o h, middlewares, i - 1)

\* middleware.Chain
Chain(h, middlewares) == chainLoop(h, middlewares, Len(middlewares))

\* Server.buildHandlerChain
buildHandlerChain(authEnabled) ==
    Chain(IF authEnabled THEN <<"Auth", "mux">> ELSE <<"mux">>,
          <<"Recovery", "Logging", "Metrics">>)

\* "SkipPaths: []string{"/healthz", "/readyz", "/metrics"}"
SkipPaths == {"healthz", "readyz", "metrics"}

\* AuthConfig.BearerTokens
BearerTokens == {"good"}

\* request paths as their segments
ChainPaths == { <<"healthz">>, <<"metrics", "x">>, <<"healthzx">>,
                <<"clusters", "c1", "loki", "api", "v1", "labels">> }

\* Authorization headers: none, "Basic x", "Bearer bad", "Bearer good"
Authorizations ==
    { [scheme |-> "", token |-> ""], [scheme |-> "Basic", token |-> "x"],
      [scheme |-> "Bearer", token |-> "bad"],
      [scheme |-> "Bearer", token |-> "good"] }

\* what the route of the request does: it writes a status, or it panics
\* before it has written anything
RouteOutcomes ==
    { [panics |-> FALSE, status |-> 200], [panics |-> FALSE, status |-> 404],
      [panics |-> FALSE, status |-> 502], [panics |-> TRUE, status |-> 0] }

\* Auth: the path is a skip path or below one
skipsAuth(path) ==
    \E skip \in SkipPaths : path = <<skip>> \/ (Len(path) > 1 /\ path[1] = skip)

\* Auth: the request may pass
authPasses(r) ==
    \/ skipsAuth(r.path)
    \/ /\ r.authorization.scheme = "Bearer"
       /\ r.authorization.token \in BearerTokens

\* WriteHeader(code) called by the handler at position d of the chain: each
\* responseWriter made by a handler above it notes the code
writeHeader(rw, d, code) ==
    [i \in DOMAIN rw |-> IF i < d THEN code ELSE rw[i]]

ChainInit ==
    /\ \E authEnabled \in BOOLEAN : chainLayers = buildHandlerChain(authEnabled)
    /\ chainReq \in [path : ChainPaths, authorization : Authorizations,
                     outcome : RouteOutcomes]
    /\ chainStack = 0
    /\ chainPhase = "down"
    /\ rwStatus = <<>>
    /\ clientStatus = 0
    /\ logged = 0
    /\ recorded = 0
    /\ inFlightGauge = 0

\* the next handler of the chain is called: Metrics and Logging make their
\* responseWriter, Recovery sets up its deferred function, and all three
\* call next; Auth calls next or answers 401
EnterMiddleware ==
    /\ chainPhase = "down"
    /\ chainStack < Len(chainLayers) - 1
    /\ LET d == chainStack + 1
           layer == chainLayers[d]
           rw == Append(rwStatus, IF layer \in {"Metrics", "Logging"}
                                  THEN 200 ELSE 0)
       IN  /\ chainStack' = d
           /\ inFlightGauge' = IF layer = "Metrics" THEN inFlightGauge + 1
                               ELSE inFlightGauge
           /\ IF layer = "Auth" /\ ~authPasses(chainReq)
              THEN /\ rwStatus' = writeHeader(rw, d, 401)
                   /\ clientStatus' = 401
                   /\ chainPhase' = "up"
              ELSE /\ rwStatus' = rw
                   /\ UNCHANGED <<clientStatus, chainPhase>>
    /\ UNCHANGED <<chainLayers, chainReq, logged, recorded>>
    /\ UNCHANGED notChainVars

\* the ServeMux runs the route: it writes its status and returns, or panics
ServeRoute ==
    /\ chainPhase = "down"
    /\ chainStack = Len(chainLayers) - 1
    /\ IF chainReq.outcome.panics
       THEN /\ chainPhase' = "panic"
            /\ UNCHANGED <<rwStatus, clientStatus>>
       ELSE /\ rwStatus' = writeHeader(rwStatus, chainStack + 1,
                                       chainReq.outcome.status)
            /\ clientStatus' = chainReq.outcome.status
            /\ chainPhase' = "up"
    /\ UNCHANGED <<chainLayers, chainReq, chainStack, logged, recorded,
                   inFlightGauge>>
    /\ UNCHANGED notChainVars

\* next.ServeHTTP has returned to the innermost handler still running:
\* Metrics counts the request under rw.statusCode, Logging logs it
ReturnMiddleware ==
    /\ chainPhase = "up"
    /\ chainStack > 0
    /\ LET layer == chainLayers[chainStack]
       IN  /\ recorded' = IF layer = "Metrics" THEN rwStatus[chainStack]
                          ELSE recorded
           /\ logged' = IF layer = "Logging" THEN rwStatus[chainStack]
                        ELSE logged
           /\ inFlightGauge' = IF layer = "Metrics" THEN inFlightGauge - 1
                               ELSE inFlightGauge
    /\ chainStack' = chainStack - 1
    /\ chainPhase' = IF chainStack = 1 THEN "done" ELSE "up"
    /\ UNCHANGED <<chainLayers, chainReq, rwStatus, clientStatus>>
    /\ UNCHANGED notChainVars

\* the panic leaves the innermost handler still running: only deferred
\* functions run, that of Metrics (HTTPRequestsInFlight.Dec) and that of
\* Recovery, which writes 500 to the writer it was given and returns
UnwindMiddleware ==
    /\ chainPhase = "panic"
    /\ chainStack > 0
    /\ LET layer == chainLayers[chainStack]
       IN  /\ inFlightGauge' = IF layer = "Metrics" THEN inFlightGauge - 1
                               ELSE inFlightGauge
           /\ IF layer = "Recovery"
              THEN /\ rwStatus' = writeHeader(rwStatus, chainStack, 500)
                   /\ clientStatus' = 500
                   /\ chainPhase' = IF chainStack = 1 THEN "done" ELSE "up"
              ELSE UNCHANGED <<rwStatus, clientStatus, chainPhase>>
    /\ chainStack' = chainStack - 1
    /\ UNCHANGED <<chainLayers, chainReq, logged, recorded>>
    /\ UNCHANGED notChainVars

ChainNext ==
    \/ EnterMiddleware
    \/ ServeRoute
    \/ ReturnMiddleware
    \/ UnwindMiddleware

InitChain ==
    WatcherIdle /\ HeaderIdle /\ RouterIdle /\ UriIdle /\ TokenIdle
      /\ HealthIdle /\ ConfigIdle /\ ShutdownIdle /\ ChainInit /\ RaceIdle
      /\ StopIdle

SpecChain == InitChain /\ [][ChainNext]_vars

-----------------------------------------------------------------------------
(* Watcher.Stop step by step, called by several goroutines: the goroutine  *)
(* of Start from its select on ctx.Done(), the one in tenant.Registry.Stop *)
(* and one more caller of Stop                                              *)

Stoppers == {"start", "registry", "caller"}

RaceInit ==
    /\ stopChan = "open"
    /\ stopPc = [p \in Stoppers |-> "idle"]
    /\ stopCalls = [p \in Stoppers |-> 0]
    /\ closes = 0
    /\ startCtx = "live"

\* a close of a closed channel has panicked and ended the process
Crashed == \E p \in Stoppers : stopPc[p] = "panicked"

\* the context given to Start is cancelled
CancelStartCtx ==
    /\ ~Crashed
    /\ startCtx = "live"
    /\ startCtx' = "cancelled"
    /\ UNCHANGED <<stopChan, stopPc, stopCalls, closes>>
    /\ UNCHANGED notRaceVars

\* goroutine p may call Stop: Start from "case <-ctx.Done()" of its
\* select, once; the others whenever they like
mayCallStop(p) ==
    IF p = "start"
    THEN startCtx = "cancelled" /\ stopCalls[p] = 0
    ELSE stopCalls[p] < MaxStops

\* Start returns nil from "case <-w.stopCh" of its select and calls Stop
\* no more
StartSeesStop ==
    /\ ~Crashed
    /\ stopPc["start"] = "idle"
    /\ stopChan = "closed"
    /\ stopPc' = [stopPc EXCEPT !["start"] = "exited"]
    /\ UNCHANGED <<stopChan, stopCalls, closes, startCtx>>
    /\ UNCHANGED notRaceVars

\* Stop, the select: "case <-w.stopCh" when the channel is closed, the
\* default branch otherwise
StopSelect(p) ==
    /\ ~Crashed
    /\ stopPc[p] \in {"idle", "returned"}
    /\ mayCallStop(p)
    /\ stopCalls' = [stopCalls EXCEPT ![p] = @ + 1]
    /\ stopPc' = [stopPc EXCEPT ![p] =
                     IF stopChan = "closed" THEN "returned" ELSE "closing"]
    /\ UNCHANGED <<stopChan, closes, startCtx>>
    /\ UNCHANGED notRaceVars

\* Stop, the default branch: "close(w.stopCh)", which panics on a closed
\* channel
StopClose(p) ==
    /\ ~Crashed
    /\ stopPc[p] = "closing"
    /\ closes' = closes + 1
    /\ stopChan' = "closed"
    /\ stopPc' = [stopPc EXCEPT ![p] =
                     IF stopChan = "closed" THEN "panicked" ELSE "returned"]
    /\ UNCHANGED <<stopCalls, startCtx>>
    /\ UNCHANGED notRaceVars

RaceNext ==
    \/ CancelStartCtx
    \/ StartSeesStop
    \/ \E p \in Stoppers : StopSelect(p)
    \/ \E p \in Stoppers : StopClose(p)

InitRace ==
    WatcherIdle /\ HeaderIdle /\ RouterIdle /\ UriIdle /\ TokenIdle
      /\ HealthIdle /\ ConfigIdle /\ ShutdownIdle /\ ChainIdle /\ RaceInit
      /\ StopIdle

SpecRace == InitRace /\ [][RaceNext]_vars

-----------------------------------------------------------------------------
(* Properties of the tenant watcher *)

\* the filter as the specification words it: the include list is empty or
\* some include matches, and no exclude matches
SomeMatch(patterns, name) ==
    \E i \in DOMAIN patterns : MatchString(patterns[i], name)

Admitted(name) ==
    /\ (includePatterns = <<>> \/ SomeMatch(includePatterns, name))
    /\ ~SomeMatch(excludePatterns, name)

\* C2: whatever namespace events, resyncs and refreshes have happened, every
\* tenant of the watcher passes the filter and the tenant slice is strictly
\* increasing in byte order (hence free of duplicates).
C2_TenantsFilteredAndSorted ==
    /\ \A i \in DOMAIN tenants : Admitted(tenants[i])
    /\ \A i \in 1..(Len(tenants) - 1) : StrLess(tenants[i], tenants[i + 1])

\* a handler-triggered refresh has stored two tenants or more while the
\* cache also held a namespace the filter rejects
C2_Witness ==
    /\ lastRefresh.by = "handler"
    /\ Len(tenants) >= 2
    /\ \E n \in lastRefresh.listed : ~Admitted(n)

\* C5: a refresh that completed while no other refresh was running left
\* exactly the admitted names of the namespaces it listed from the cache;
\* with no include pattern those are the names no exclude matches, and a
\* name matched by an include and by an exclude is left out.
C5_RefreshStoresAdmitted ==
    (lastRefresh.by # "none" /\ lastRefresh.alone) =>
        /\ Range(tenants) = { n \in lastRefresh.listed : Admitted(n) }
        /\ Len(tenants) = Cardinality(Range(tenants))
        /\ includePatterns = <<>> =>
              Range(tenants) =
                  { n \in lastRefresh.listed : ~SomeMatch(excludePatterns, n) }
        /\ \A n \in lastRefresh.listed :
              (SomeMatch(includePatterns, n) /\ SomeMatch(excludePatterns, n))
                  => n \notin Range(tenants)

\* a refresh completed alone over a cache holding a name that an include
\* and an exclude both match, and a name that is admitted
C5_Witness ==
    /\ lastRefresh.by # "none"
    /\ lastRefresh.alone
    /\ tenants # <<>>
    /\ \E n \in lastRefresh.listed :
          SomeMatch(includePatterns, n) /\ SomeMatch(excludePatterns, n)

-----------------------------------------------------------------------------
(* Properties of the scope header *)

\* C3: for maxLen > 0 the header BuildOrgIDHeader returns is at most maxLen
\* bytes long.
C3_HeaderWithinMaxLen ==
    (built /\ maxLength > 0) => Len(header) <= maxLength

\* the header was truncated because the first tenant alone exceeds maxLen
C3_Witness ==
    /\ built
    /\ maxLength > 0
    /\ tenants # <<>>
    /\ Len(tenants[1]) > maxLength
    /\ Len(header) = maxLength

\* the header is the '|'-join of the first k tenants, for some k >= 1
IsPrefixJoin(h, ts) ==
    \E k \in 1..Len(ts) : h = Join(SubSeq(ts, 1, k))

\* C4 as claimed: the header is empty or the join of a non-empty prefix of
\* the tenants, so each of its '|'-separated elements is a tenant name.
C4_HeaderIsTenantPrefix ==
    built =>
        \/ header = <<>>
        \/ /\ IsPrefixJoin(header, tenants)
           /\ \A e \in Range(Split(header)) : e \in Range(tenants)

\* C4 amended: the header is empty, or the join of a non-empty prefix of the
\* tenants, or, when maxLen > 0 and the first tenant alone is longer than
\* maxLen, the first maxLen bytes of the first tenant.
C4_HeaderIsTenantPrefixOrCutFirst ==
    built =>
        \/ header = <<>>
        \/ /\ IsPrefixJoin(header, tenants)
           /\ \A e \in Range(Split(header)) : e \in Range(tenants)
        \/ /\ maxLength > 0
           /\ tenants # <<>>
           /\ Len(tenants[1]) > maxLength
           /\ header = Take(tenants[1], maxLength)

\* the header is a cut first tenant that is no tenant name
C4_Witness ==
    /\ built
    /\ tenants # <<>>
    /\ maxLength > 0
    /\ Len(tenants[1]) > maxLength
    /\ header = Take(tenants[1], maxLength)
    /\ header \notin Range(tenants)

-----------------------------------------------------------------------------
(* Properties of the routers and the service-proxy client *)

\* the tenant set of the request's cluster (none without a watcher)
TenantsOf(cluster) ==
    IF cluster \in DOMAIN watchers THEN watchers[cluster] ELSE <<>>

\* C1: a forwarded request carries exactly one X-Scope-OrgID value, the
\* header built from the cluster's tenants and the configured maximum length,
\* when the cluster has tenants, and no X-Scope-OrgID at all when it has none.
C1_ScopeHeaderFromTenants ==
    upstream # NoValue =>
        IF TenantsOf(req.cluster) # <<>>
        THEN /\ ScopeKey \in DOMAIN upstream.headers
             /\ upstream.headers[ScopeKey] =
                   << BuildOrgIDHeader(TenantsOf(req.cluster), maxOrgIDLength) >>
        ELSE ScopeKey \notin DOMAIN upstream.headers

\* the parameters each validating handler requires
Required(h) ==
    IF h \in {"handleQuery", "handleTail", "handleQueryExemplars"}
    THEN {"query"}
    ELSE IF h = "handleQueryRange" THEN {"query", "start", "end"}
    ELSE IF h = "handleSeries" THEN {"match[]"}
    ELSE {}

\* the parameters a request gives, in its URL or in its form body
Given(r) ==
    { k \in Keys :
        \/ k \in DOMAIN r.query
        \/ r.method = "POST" /\ r.form /\ k \in DOMAIN r.body }

\* the keys a URL query or a body gives a value that is not empty
Filled(m) == { k \in DOMAIN m : m[k] # "" }

StepRank(step) ==
    CASE step = "lookup" -> 0
      [] step = "validate" -> 1
      [] step = "build" -> 2
      [] step = "forward" -> 3
      [] step = "write" -> 4

\* C6: on the routes with required parameters a request lacking one is
\* answered 400 with neither the tenant header built nor the forwarder
\* called, and the steps of every request come in the order validate, build
\* scope header, forward, write response.
C6_ValidateBeforeBuildAndForward ==
    /\ \A i \in 1..(Len(steps) - 1) : StepRank(steps[i]) < StepRank(steps[i + 1])
    /\ (/\ pc = "done"
        /\ req.cluster \in clients(req.backend)
        /\ ~(Required(handler) \subseteq Given(req)))
       => /\ resp.status = 400
          /\ "build" \notin Range(steps)
          /\ "forward" \notin Range(steps)
          /\ opts = NoValue
          /\ upstream = NoValue

\* a range query that gives query and start but no end was answered 400
C6_Witness ==
    /\ pc = "done"
    /\ handler = "handleQueryRange"
    /\ Given(req) = {"query", "start"}
    /\ resp.status = 400
    /\ steps = <<"lookup", "validate", "write">>

\* C7: a request for a cluster without a client for the backend is answered
\* 404 with a JSON error object, nothing is sent upstream, and the form is
\* not even parsed: a missing parameter does not turn the answer into 400.
C7_UnknownClusterIs404 ==
    (req # NoValue /\ req.cluster \notin clients(req.backend)) =>
        /\ upstream = NoValue
        /\ "validate" \notin Range(steps)
        /\ reqBody = req.body
        /\ pc = "done" =>
              /\ resp.status = 404
              /\ resp.contentType = "application/json"
              /\ resp.kind = "error-object"
              /\ steps = <<"lookup", "write">>

\* c2 has no Mimir endpoint: an instant query without query got 404
C7_Witness ==
    /\ pc = "done"
    /\ req.cluster = "c2"
    /\ req.backend = "mimir"
    /\ handler = "handleQuery"
    /\ Given(req) = {}
    /\ resp.status = 404

\* C8: when the backend answered with an HTTP error status, the inbound
\* client gets that status and the backend's body unchanged.
C8_UpstreamErrorPassedThrough ==
    (/\ pc = "done"
     /\ result # NoValue
     /\ result.kind = "http"
     /\ result.status >= 400)
    => /\ resp.status = result.status
       /\ resp.kind = "bytes"
       /\ resp.body = result.body

\* where the JSON string that starts after position i ends: the position
\* of its closing quote, 0 when there is none
RECURSIVE StringEnd(_, _)
StringEnd(b, i) ==
    IF i > Len(b) THEN 0
    ELSE IF b[i] = 34 THEN i
    ELSE IF b[i] = 92 THEN StringEnd(b, i + 2)
    ELSE StringEnd(b, i + 1)

RECURSIVE SkipSpaces(_, _)
SkipSpaces(b, i) ==
    IF i <= Len(b) /\ b[i] = 32 THEN SkipSpaces(b, i + 1) ELSE i

\* "proxy request failed"
ProxyFailedText ==
    <<112, 114, 111, 120, 121, 32, 114, 101, 113, 117, 101, 115, 116, 32, 102,
      97, 105, 108, 101, 100>>

\* b is a JSON object {"error": "<string>"}
IsJSONErrorObject(b) ==
    LET key == <<123, 34, 101, 114, 114, 111, 114, 34, 58>>
        open == SkipSpaces(b, Len(key) + 1)
        close == StringEnd(b, open + 1)
    IN  /\ HasPrefix(b, key)
        /\ open <= Len(b)
        /\ b[open] = 34
        /\ close > 0
        /\ SubSeq(b, close + 1, Len(b)) = <<125>>

\* C9: after a transport error ProxyHTTP has written 502, Content-Type
\* application/json and a JSON error body saying the proxy request failed,
\* and has closed the inbound body; it closes the body on success as well.
C9_TransportErrorIs502Json ==
    /\ (pc = "done" /\ upstream # NoValue) => bodyClosed
    /\ (pc = "done" /\ result # NoValue /\ result.kind = "transport") =>
          /\ resp.status = 502
          /\ resp.contentType = "application/json"
          /\ resp.kind = "bytes"
          /\ Contains(resp.body, ProxyFailedText)
          /\ IsJSONErrorObject(resp.body)

\* C10: for a POST with a form-encoded body that parses, the required
\* parameters count whether they come in the URL or in the body, and the
\* body sent upstream is the body the client sent.
C10_FormBodyValidatedAndPreserved ==
    (req # NoValue /\ req.method = "POST" /\ req.form) =>
        /\ (/\ pc = "done"
            /\ req.cluster \in clients(req.backend)
            /\ ~parseFormFails(req)
            /\ Required(handler) \subseteq
                  (Filled(req.query) \cup Filled(req.body)))
           => resp.status # 400
        /\ upstream # NoValue => upstream.body = req.body

-----------------------------------------------------------------------------
(* Properties of the URI called on the API server *)

\* the inbound path with the strip prefix removed, "/" when that is empty
Stripped ==
    IF uriReq.path = uriReq.strip THEN Slash
    ELSE SubSeq(uriReq.path, Len(uriReq.strip) + 1, Len(uriReq.path))

\* C11: the URI called on the API server is
\* /api/v1/namespaces/<ns>/services/<svc>:<port>/proxy, then the client's
\* path prefix, then the inbound path without the strip prefix ("/" when
\* nothing is left), then '?' and the encoded query if and only if the
\* inbound request has a query value.
C11_ServiceProxyURI ==
    servicePath # NoValue =>
        LET head == ApiNamespaces \o proxyClient.namespace \o ServicesSegment
                      \o proxyClient.service \o Colon
                      \o Itoa(proxyClient.port) \o ProxySegment
                      \o proxyClient.pathPrefix \o Stripped
        IN  /\ HasPrefix(servicePath, head)
            /\ IF DOMAIN uriReq.query = {}
               THEN servicePath = head
               ELSE servicePath = head \o QuestionMark \o Encode(uriReq.query)
            /\ Contains(servicePath, QuestionMark) <=> (DOMAIN uriReq.query # {})

\* the URI of a request whose path is the strip prefix alone, sent by a
\* client with a path prefix, with values for two query keys
C11_Witness ==
    /\ servicePath # NoValue
    /\ uriReq.path = uriReq.strip
    /\ proxyClient.pathPrefix # <<>>
    /\ Cardinality(DOMAIN uriReq.query) = 2
    /\ Contains(servicePath, <<37, 55, 67>>)

-----------------------------------------------------------------------------
(* Properties of the forwarded headers *)

\* C12: a forwarded request carries none of the inbound request's
\* Connection, Keep-Alive, Proxy-Authenticate, Proxy-Authorization, Te,
\* Trailers, Transfer-Encoding, Upgrade and Accept-Encoding headers, and
\* carries every other inbound header: its name with each of its values
\* (X-Scope-OrgID, whose value the proxy sets itself, by name only).
C12_HopByHopDroppedOthersKept ==
    upstream # NoValue =>
        \A k \in DOMAIN req.headers :
            IF k \in {"Connection", "Keep-Alive", "Proxy-Authenticate",
                      "Proxy-Authorization", "Te", "Trailers",
                      "Transfer-Encoding", "Upgrade", "Accept-Encoding"}
            THEN k \notin DOMAIN upstream.headers
            ELSE /\ k \in DOMAIN upstream.headers
                 /\ k # ScopeKey =>
                       Range(req.headers[k]) \subseteq Range(upstream.headers[k])

-----------------------------------------------------------------------------
(* Properties of the token transport *)

\* the groups of two or more round trips that were in getToken at the same
\* time, each having found the token cell stale when it called, and each
\* having got a token
Bursts ==
    { G \in SUBSET Procs :
        /\ Cardinality(G) >= 2
        /\ \A p \in G : /\ trips[p].stale
                        /\ trips[p].pc \in {"have", "done"}
                        /\ ~trips[p].err
                        /\ G \ {p} \subseteq trips[p].peers }

\* goroutine p gets a token from getToken in this step
Obtains(p) == trips[p].pc \in {"waiting", "minting"} /\ trips'[p].pc = "have"

OneMintPerBurst ==
    \A G \in Bursts :
        LET lo == CHOOSE n \in { trips[p].m0 : p \in G } :
                      \A p \in G : n <= trips[p].m0
            hi == CHOOSE n \in { trips[p].m1 : p \in G } :
                      \A p \in G : n >= trips[p].m1
        IN  /\ hi = lo + 1
            /\ \A p \in G : trips[p].tok = lo + 1
            /\ Cardinality({ p \in G : trips[p].minted }) <= 1

\* C13: when two or more concurrent round trips find the token cell empty
\* or within a minute of expiry and minting succeeds, one token is minted
\* between the first call and the last return, all of them get that token,
\* and its expiry is in the future when they get it.
C13_OneMintPerBurst ==
    [][ /\ OneMintPerBurst'
        /\ \A p \in Procs :
              (Obtains(p) /\ trips[p].stale) =>
                  /\ expiry' > now'
                  /\ trips'[p].tok = token'
                  /\ trips'[p].tok = trips[p].m0 + 1 ]_vars

\* three concurrent round trips that found the first token within a minute
\* of its expiry have all got the second token
C13_Witness ==
    /\ Procs \in Bursts
    /\ token = 2
    /\ \A p \in Procs : trips[p].tok = 2

\* C14 as claimed: the token cell is empty or holds a token whose expiry is
\* later than the current time.
C14_CellNeverExpired ==
    token = 0 \/ expiry > now

\* C14 amended: a token is stored in the cell with an expiry later than the
\* current time and every token getToken returns expires more than a
\* minute after the current time; the cell is not emptied when time passes
\* the expiry of its token.
C14_ReturnedTokenNotExpired ==
    [][ /\ token' # token => (token' # 0 /\ expiry' > now')
        /\ \A p \in Procs :
              Obtains(p) =>
                  /\ trips'[p].tok = token'
                  /\ token' # 0
                  /\ expiry' > now' + RefreshBuffer
        /\ (token # 0 /\ now' # now) => (token' = token /\ expiry' = expiry)
      ]_vars

\* the first token has expired in the cell, and a round trip that came
\* after that has got the second token
C14_Witness ==
    /\ token = 2
    /\ expiry > now + RefreshBuffer
    /\ now > TokenValidity
    /\ \E p \in Procs : /\ trips[p].pc = "have"
                        /\ trips[p].tok = 2
                        /\ trips[p].m0 = 1

\* C15: when minting fails the round trip returns the error without calling
\* the API server, token and expiry stay as they were, the request makes
\* no second attempt, and the next request that finds the cell stale
\* attempts a mint.
C15_MintErrorLeavesCell ==
    [][ \A p \in Procs :
          /\ (trips[p].pc = "minting" /\ trips'[p].pc # "minting") =>
                \/ trips'[p].pc = "have" /\ ~trips'[p].err
                \/ /\ trips'[p].err
                   /\ trips'[p].pc = "done"
                   /\ ~trips'[p].sent
                   /\ token' = token
                   /\ expiry' = expiry
                   /\ mints' = mints
          /\ trips[p].err =>
                \/ trips'[p].pc = "done" /\ trips'[p].err /\ ~trips'[p].sent
                \/ trips'[p].pc = "waiting" /\ ~trips'[p].err
          /\ (trips[p].pc = "waiting" /\ trips'[p].pc # "waiting"
                /\ ~cachedTokenValid) => trips'[p].pc = "minting"
      ]_vars

\* a round trip failed to replace the first token, which is still in the
\* cell, and a later round trip is minting
C15_Witness ==
    /\ token = 1
    /\ \E p, q \in Procs :
          /\ trips[p].err
          /\ trips[p].pc = "done"
          /\ ~trips[p].sent
          /\ trips[p].m0 = 1
          /\ trips[q].pc = "minting"
          /\ p \notin trips[q].peers

-----------------------------------------------------------------------------
(* Properties of the watcher's life cycle *)

\* C16: once Stop has closed the stop channel it stays closed, whatever is
\* called afterwards (Stop again, Start, StartAsync, a cancelled context),
\* and the stopped watcher takes in no further namespace event: its cache
\* keeps its content and nothing is added to the notifications pending.
C16_StoppedStaysStopped ==
    [][ stopCh = "closed" =>
          /\ stopCh' = "closed"
          /\ cache' = cache
          /\ synced' = synced
          /\ \/ queue' = queue
             \/ queue # <<>> /\ queue' = Tail(queue) ]_vars

\* Start has been called again on a stopped watcher whose first Start had
\* refreshed, and is in its refresh
C16_Witness ==
    /\ stopCh = "closed"
    /\ pcStart = "listed"
    /\ lastRefresh.by = "start"
    /\ cache # {}

\* C17: once Stop has been called or the context of Start cancelled, the
\* goroutine running Start has returned with the informer stopped, or it
\* is at a point from which it goes on to return without a further call
\* (a process that ended has no task left).
C17_StopEndsBackgroundTask ==
    (pcStart # "new" /\ (stopCh = "closed" \/ ctx = "cancelled")) =>
        \/ panicked
        \/ pcStart \in {"done", "failed"} /\ stopCh = "closed"
        \/ pcStart \in {"listed", "listFailed", "waiting", "stopping",
                         "default"}
        \/ pcStart = "syncing" /\ synced
        \/ pcStart = "syncing" /\ ctx = "cancelled" /\ stopCh = "closed"

\* C18: a refresh whose List call fails leaves the tenants as they were,
\* and the goroutine that ran it carries on: Start goes to wait for the
\* stop signal, the handler goroutine returns to take the next event.
C18_ListErrorKeepsTenants ==
    [][ /\ (pcStart = "listFailed" \/ pcStart' = "listFailed"
              \/ pcHandler = "listFailed" \/ pcHandler' = "listFailed")
           => (tenants' = tenants
                 \/ (pcStart = "listed" /\ pcStart' = "waiting")
                 \/ (pcHandler = "listed" /\ pcHandler' = "idle"))
        /\ (pcStart = "listFailed" /\ pcStart' # "listFailed")
           => (pcStart' = "waiting" /\ tenants' = tenants)
        /\ (pcHandler = "listFailed" /\ pcHandler' # "listFailed")
           => (pcHandler' = "idle" /\ tenants' = tenants) ]_vars

\* the List call of a handler's refresh has failed while the watcher holds
\* tenants and another notification is pending
C18_Witness ==
    /\ pcHandler = "listFailed"
    /\ tenants # <<>>
    /\ queue # <<>>
    /\ lastRefresh.by = "handler"

-----------------------------------------------------------------------------
(* Properties of the health check *)

\* C19: HealthCheck returns only when every probe it started has finished,
\* with exactly one entry for each registered cluster; /readyz answers 200
\* and "ok" if and only if every entry is a success, and 503 and "degraded"
\* when at least one entry is an error.
C19_HealthCheckWaitsForAll ==
    /\ hcPc \in {"returned", "answered"} =>
          /\ DOMAIN results = registered
          /\ \A c \in registered : probes[c] = "done"
    /\ hcPc = "answered" =>
          /\ DOMAIN readyz.clusters = registered
          /\ (readyz.code = 200 /\ readyz.status = "ok")
                <=> (\A c \in registered : results[c] = "ok")
          /\ (readyz.code = 503 /\ readyz.status = "degraded")
                <=> (\E c \in registered : results[c] # "ok")

\* /readyz has answered 503 for three clusters of which one probe failed
C19_Witness ==
    /\ hcPc = "answered"
    /\ registered = HealthClusters
    /\ Cardinality({ c \in registered : results[c] = "refused" }) = 1
    /\ readyz.code = 503

-----------------------------------------------------------------------------
(* Properties of the configuration *)

\* C20: in a configuration that Validate accepts the cluster names are
\* pairwise distinct, and the registry built from it holds one cluster for
\* each descriptor.
C20_AcceptedNamesDistinct ==
    validation = <<"ok">> =>
        /\ \A i, j \in DOMAIN cfg.clusters :
              cfg.clusters[i].name = cfg.clusters[j].name => i = j
        /\ (clusterRegistry # NoValue /\ "failed" \notin DOMAIN clusterRegistry) =>
              /\ Cardinality(DOMAIN clusterRegistry) = Len(cfg.clusters)
              /\ \A i \in DOMAIN cfg.clusters :
                    clusterRegistry[cfg.clusters[i].name] = i

-----------------------------------------------------------------------------
(* Properties of the shutdown *)

\* C21: when the HTTP server begins to shut down, Stop has been called on
\* every tenant watcher; and httpServer.Shutdown waits for the requests in
\* flight no longer than until 30 seconds after Shutdown was called: from
\* then on no time passes before it returns, and it returns nil only when
\* no request is in flight.
C21_WatchersStoppedThenBoundedDrain ==
    [][/\ httpState' # "serving" =>
             \A c \in DOMAIN watcherStops' : watcherStops'[c] = "closed"
       /\ (srvPc = "draining" /\ elapsed >= ShutdownTimeout) =>
             elapsed' = elapsed
       /\ shutdownErr' = "context deadline exceeded" =>
             elapsed' >= ShutdownTimeout
       /\ shutdownErr' = "nil" => inflight' = 0]_vars

\* Shutdown gave up at its deadline with a request still in flight, the two
\* watchers stopped
C21_Witness ==
    /\ srvPc = "returned"
    /\ shutdownErr = "context deadline exceeded"
    /\ inflight > 0
    /\ DOMAIN watcherStops = WatchedClusters

-----------------------------------------------------------------------------
(* Properties of overlapping refreshes *)

\* no refresh is running or waiting to run
RefreshesComplete ==
    /\ queue = <<>>
    /\ pcHandler = "idle"
    /\ pcStart \in {"waiting", "done"}

\* C22: refreshes take effect in arrival order with no stale overwrite: a
\* step after which every triggered refresh has completed never replaces a
\* tenant set that was the filtered, sorted content of the namespace cache
\* by one that is not, the cache being the same.
C22_NoStaleOverwrite ==
    [][(/\ tenants = computeTenants(includePatterns, excludePatterns, cache)
        /\ cache' = cache
        /\ RefreshesComplete')
       => tenants' = computeTenants(includePatterns, excludePatterns, cache)]_vars

-----------------------------------------------------------------------------
(* Properties of what triggers a refresh *)

\* the notification comes from a resync tick
IsResync(ev) == "resync" \in DOMAIN ev

\* C23: a running watcher recomputes its tenant set when the cache has
\* synced, on every resync tick and on every namespace add or delete it is
\* notified of; on an update it recomputes only when the old and the new
\* object differ in name.
C23_RecomputeTriggers ==
    [][/\ (pcStart = "syncing" /\ pcStart' \notin {"syncing", "failed"})
             => pcStart' \in {"listed", "listFailed"}
       /\ (pcHandler = "idle" /\ queue # <<>> /\ queue' = Tail(queue))
             => LET ev == Head(queue)
                IN  (pcHandler' \in {"listed", "listFailed"})
                       <=> \/ ev.type \in {"add", "delete"}
                           \/ IsResync(ev)
                           \/ ev.oldName # ev.newName]_vars

-----------------------------------------------------------------------------
(* Properties of the header value *)

\* the number of leading tenants whose '|'-join is at most maxLen bytes
\* long, the largest such number
LargestFit(ts, maxLen) ==
    CHOOSE k \in 0..Len(ts) :
        /\ Len(Join(SubSeq(ts, 1, k))) <= maxLen
        /\ \A j \in (k + 1)..Len(ts) : Len(Join(SubSeq(ts, 1, j))) > maxLen

\* C24: BuildOrgIDHeader returns the full '|'-join of the tenants when
\* maxLen <= 0 or the join is no longer than maxLen; otherwise the join of
\* the largest prefix of the tenants whose join is at most maxLen bytes
\* long, except that it returns the first maxLen bytes of the first tenant
\* when that tenant alone is longer than maxLen.
C24_HeaderIsLargestFittingPrefix ==
    built =>
        header =
            IF maxLength <= 0 \/ Len(Join(tenants)) <= maxLength
            THEN Join(tenants)
            ELSE IF Len(tenants[1]) > maxLength
                 THEN Take(tenants[1], maxLength)
                 ELSE Join(SubSeq(tenants, 1, LargestFit(tenants, maxLength)))

\* three tenants of which two fit, with room to spare
C24_Witness ==
    /\ built
    /\ Len(tenants) = 3
    /\ maxLength > 0
    /\ header = Join(SubSeq(tenants, 1, 2))
    /\ Len(header) < maxLength
    /\ Len(Join(tenants)) > maxLength

-----------------------------------------------------------------------------
(* Properties of getToken *)

\* C25: getToken, once it holds the mutex, returns the cached token without
\* minting if and only if the cell's token is not empty and now + 60 s is
\* before its expiry, and goes on to mint otherwise; a token it has minted
\* it stores with the expiry now + 14 minutes and returns; so every token
\* it returns expires later than now + 60 s when it is returned.
C25_CachedIffFreshElseMint ==
    [][\A p \in Procs :
          /\ (trips[p].pc = "waiting" /\ trips'[p].pc # "waiting") =>
                IF token # 0 /\ now + RefreshBuffer < expiry
                THEN /\ trips'[p].pc = "have"
                     /\ trips'[p].tok = token
                     /\ mints' = mints
                     /\ token' = token
                     /\ expiry' = expiry
                ELSE trips'[p].pc = "minting"
          /\ (trips[p].pc = "minting" /\ trips'[p].pc = "have") =>
                /\ mints' = mints + 1
                /\ token' = mints'
                /\ expiry' = now' + TokenValidity
                /\ trips'[p].tok = token'
          /\ Obtains(p) => expiry' > now' + RefreshBuffer]_vars

\* one round trip found the first token stale and has minted the second,
\* and another that found the second token fresh has got it from the cell
C25_Witness ==
    \E p, q \in Procs :
        /\ trips[p].pc \in {"have", "done"}
        /\ trips[p].minted
        /\ trips[p].tok = 2
        /\ trips[p].m0 = 1
        /\ trips[q].pc = "have"
        /\ ~trips[q].minted
        /\ trips[q].tok = 2
        /\ ~trips[q].stale

-----------------------------------------------------------------------------
(* Properties of the handler chain *)

\* C26: the handler chain is, from the outermost handler inwards, Metrics,
\* Logging, Recovery, the bearer-token check when it is enabled, and the
\* route table; so when a route panics the client gets a 500 response that
\* Logging logs and Metrics counts.
C26_MetricsLoggingRecoveryAuth ==
    /\ chainLayers \in { <<"Metrics", "Logging", "Recovery", "Auth", "mux">>,
                         <<"Metrics", "Logging", "Recovery", "mux">> }
    /\ (chainPhase = "done" /\ chainReq.outcome.panics
                            /\ clientStatus = 500) =>
          (logged = 500 /\ recorded = 500)

-----------------------------------------------------------------------------
(* Properties of concurrent Stop calls *)

\* C27: however the Stop calls of several goroutines interleave, the stop
\* channel is closed once: no second close(w.stopCh) is executed.
C27_StopClosesOnce ==
    closes <= 1 /\ ~Crashed

-----------------------------------------------------------------------------
(* Properties of the X-Scope-OrgID of the upstream request *)

\* the X-Scope-OrgID values among the headers h
ScopeOf(h) == IF ScopeKey \in DOMAIN h THEN h[ScopeKey] ELSE <<>>

\* the header sets that differ from h in X-Scope-OrgID at most
Twins(h) ==
    { g \in InboundHeaders :
        /\ (DOMAIN g) \ {ScopeKey} = (DOMAIN h) \ {ScopeKey}
        /\ \A k \in (DOMAIN g) \ {ScopeKey} : g[k] = h[k] }

\* the headers of the upstream request of an inbound request for the same
\* cluster with the headers h
UpstreamHeadersFor(h) ==
    setHeaders(addHeaders(filterHeaders(h),
                          buildProxyOptions(watchers, req.cluster,
                                            maxOrgIDLength)))

\* C28: the X-Scope-OrgID values of a forwarded request do not depend on
\* the X-Scope-OrgID of the inbound request: an inbound request for the
\* same cluster that differs in that header only is forwarded with the same
\* X-Scope-OrgID values, also when the cluster has no tenant or no watcher.
C28_ScopeHeaderIndependentOfInbound ==
    upstream # NoValue =>
        \A g \in Twins(req.headers) :
            ScopeOf(upstream.headers) = ScopeOf(UpstreamHeadersFor(g))

-----------------------------------------------------------------------------
(* Properties of the routes with required parameters *)

\* the handler registered for the path itself, under whichever method
PathHandler(backend, path) ==
    IF Route(backend, "GET", path) # "handleGenericProxy"
    THEN Route(backend, "GET", path)
    ELSE Route(backend, "POST", path)

\* C29: no request for a path with required parameters is forwarded
\* without them, whatever its method; so a POST to Loki's /api/v1/tail,
\* which is registered for GET, is not forwarded without "query" by the
\* catch-all route.
C29_RequiredParametersWhateverMethod ==
    upstream # NoValue =>
        Required(PathHandler(req.backend, req.path)) \subseteq Given(req)

\* the descriptors of the configuration that name the cluster and hold an
\* endpoint for the backend
DescriptorsFor(cluster, backend) ==
    { i \in DOMAIN cfg.clusters :
        /\ cfg.clusters[i].name = cluster
        /\ cfg.clusters[i].backend \in {backend, "both"} }

\* C30: a request forwarded for /clusters/c/loki or /clusters/c/mimir goes
\* through the proxy client built from cluster c's own connector and c's
\* own endpoint descriptor for that backend, and a cluster without that
\* backend, or absent from the registry, gets 404.
C30_ForwardedThroughOwnClient ==
    wireResp # NoValue =>
        LET own == DescriptorsFor(wireReq.cluster, wireReq.backend)
        IN  /\ wireResp.forwarded =>
                  /\ wireResp.via.endpoint \in own
                  /\ wireResp.via.connector = k8sClientOf(wireResp.via.endpoint)
            /\ (own = {} \/ wireReq.cluster \notin DOMAIN clusterRegistry) =>
                  /\ ~wireResp.forwarded
                  /\ wireResp.status = 404

====
